---- MODULE Spec2Model ----
(***************************************************************************)
(* A model of the ARNm actor runtime (arnm-lang/runtime): the lock-free    *)
(* MPSC mailbox (mailbox.c), atomic reference counting (memory.c), the     *)
(* barrier and the mutex (sync.c), and the M:N scheduler with work         *)
(* stealing together with the process life cycle and the message API       *)
(* (scheduler.c, process.c, runtime.c).                                    *)
(*                                                                         *)
(* Each subsystem has its own variables, initial condition, actions and    *)
(* specification.  A specification parks the variables of the other        *)
(* subsystems at their idle values and leaves them unchanged.              *)
(***************************************************************************)
EXTENDS Integers, Naturals, Sequences, FiniteSets, TLC

VARIABLES
    \* ---- mailbox.c: one ArnmMailbox and its ArnmMessage nodes ----
    msg_next,      \* ArnmMessage.next of every node (NULL = 0)
    msg_tag,       \* ArnmMessage.tag of every node
    msg_live,      \* nodes currently allocated (malloc'ed and not yet freed)
    mbox_head,     \* ArnmMailbox.head
    mbox_tail,     \* ArnmMailbox.tail
    mbox_count,    \* ArnmMailbox.count
    snd_pc,        \* per producer: position inside mailbox_send
    snd_prev,      \* per producer: local `prev` of mailbox_send
    snd_msg,       \* per producer: local `msg` of mailbox_send
    snd_done,      \* per producer: number of mailbox_send calls begun
    rcv_pc,        \* consumer: position inside mailbox_try_receive
    rcv_next,      \* consumer: local `next` of mailbox_try_receive
    received,      \* per sender: the sequence numbers of its messages that successful
                   \* mailbox_try_receive calls returned, in order of receipt
    mbox_fault     \* TRUE once a freed node has been read or written

VARIABLES
    \* ---- memory.c: one ARC object and the workers that share it ----
    arc_refcount,  \* ArnmObjectHeader.refcount
    arc_held,      \* per worker: the references it owns and has yet to release
    arc_pc,        \* per worker: position inside arnm_arc_release
    arc_retains,   \* number of arnm_arc_retain calls made so far
    arc_dtor_runs, \* number of times header->dtor has run
    arc_frees,     \* number of times free(header) has run
    arc_fault      \* TRUE once the header has been touched after free(header)

VARIABLES
    \* ---- sync.c: one ArnmBarrier and the processes that meet at it ----
    bar_count,      \* ArnmBarrier.count
    bar_generation, \* ArnmBarrier.generation
    bar_pc,         \* per process: position inside arnm_barrier_wait
    bar_my_gen,     \* per process: local `my_gen` of arnm_barrier_wait
    bar_calls,      \* per process: number of arnm_barrier_wait calls begun
    bar_rets        \* per process: number of arnm_barrier_wait calls returned

VARIABLES
    \* ---- sync.c: one ArnmMutex and the processes that use it ----
    mtx_locked,    \* ArnmMutex.locked
    mtx_owner,     \* ArnmMutex.owner
    mtx_pc,        \* per process: position inside the mutex call it is making
    mtx_holders,   \* processes whose lock or try_lock succeeded and whose own
                   \* unlock has not yet released the mutex
    mtx_refused,   \* TRUE once an unlock of the current holder's mutex by
                   \* another process has returned at the non-owner warning
    mtx_aborted    \* TRUE once abort() has been called

VARIABLES
    \* ---- scheduler.c, process.c: the processes, the queues, the workers ----
    num_workers,   \* Scheduler.num_workers
    proc_state,    \* ArnmProcess.state of every record ("Unborn": not yet created)
    proc_context,  \* ArnmProcess.context: where the process resumes when switched to
    proc_freed,    \* records that proc_destroy has freed
    proc_runs,     \* per process: the times its entry function has started
    proc_mbox,     \* per process: the messages queued in its mailbox
    proc_got,      \* per process: the messages arnm_receive has returned to it
    global_queue,  \* Scheduler.global_queue, head first
    local_queue,   \* ArnmWorker.local_queue of every worker, head first
    active_procs,  \* Scheduler.active_procs
    wk_pc,         \* per worker: position of its thread
    wk_current,    \* ArnmWorker.current
    wk_proc,       \* per worker: local `proc` of worker_main
    wk_i,          \* per worker: local `i` of try_steal
    wk_pos,        \* per worker: where the process it is running has got to
    sends,         \* number of arnm_send calls made so far
    sched_fault,   \* TRUE once a freed process record or mailbox has been
                   \* read, written or freed again
    sched_crashed  \* TRUE once a RUNTIME_ASSERT has failed

mbVars == <<msg_next, msg_tag, msg_live, mbox_head, mbox_tail, mbox_count,
            snd_pc, snd_prev, snd_msg, snd_done,
            rcv_pc, rcv_next, received, mbox_fault>>
arcVars == <<arc_refcount, arc_held, arc_pc, arc_retains, arc_dtor_runs, arc_frees,
             arc_fault>>
barVars == <<bar_count, bar_generation, bar_pc, bar_my_gen, bar_calls, bar_rets>>
mtxVars == <<mtx_locked, mtx_owner, mtx_pc, mtx_holders, mtx_refused, mtx_aborted>>
schedVars == <<num_workers, proc_state, proc_context, proc_freed, proc_runs, proc_mbox, proc_got,
               global_queue, local_queue, active_procs,
               wk_pc, wk_current, wk_proc, wk_i, wk_pos,
               sends, sched_fault, sched_crashed>>

VARIABLES
    \* ---- sync.c: one ArnmChannel and the processes that use it ----
    chan_buffer,   \* ArnmChannel.buffer: slot -> data (NULL = empty slot)
    chan_head,     \* ArnmChannel.head
    chan_tail,     \* ArnmChannel.tail
    chan_count,    \* ArnmChannel.count
    chan_closed,   \* ArnmChannel.closed
    ch_op,         \* per process: the channel call it is making ("none" between calls)
    ch_pc,         \* per process: position inside that call
    ch_waited,     \* per process: a try inside its send or receive call has failed
    ch_result,     \* per process: what its last call returned ("none" while in a call)
    ch_late,       \* per process: its call began after arnm_channel_close had returned
    ch_at_close    \* per process: what it was blocked in when the channel was closed

chanVars == <<chan_buffer, chan_head, chan_tail, chan_count, chan_closed,
              ch_op, ch_pc, ch_waited, ch_result, ch_late, ch_at_close>>

VARIABLES
    \* ---- mailbox.h, mailbox.c: the capacity of the mailbox and its overflow policies ----
    mbox_capacity, \* ArnmMailbox.capacity (0 = unlimited)
    ovf_blocked,   \* per producer: its mailbox_send_ex found the mailbox full
                   \* under the Block policy and has yielded, to try again
    ovf_dropped,   \* number of messages discarded under the Drop policy
    ovf_panicked   \* TRUE once a send has aborted under the Panic policy

ovfVars == <<mbox_capacity, ovf_blocked, ovf_dropped, ovf_panicked>>

VARIABLES
    \* ---- compiler/lexer.c: one Lexer ----
    lexer          \* the Lexer: source, cursor, the kind of its current token;
                   \* pc: position inside lexer_next_token; depth: local `depth`
                   \* of skip_whitespace_and_comments; open: the input ended
                   \* inside a block comment during this call

VARIABLES
    \* ---- compiler/parser.c: one Parser ----
    parser         \* the Parser: had_error, panic_mode, error_count; tokens: what
                   \* its lexer returns; ast: the expression parsed (<<>> = NULL);
                   \* raised: error_at has been called; window: the diagnostics
                   \* recorded since the last synchronize

VARIABLES
    \* ---- compiler/sema.c, types.c, symbol.c: one SemaContext ----
    sema           \* the SemaContext and what its last call returned; the fields
                   \* are described with the Init of each specification

VARIABLES
    \* ---- scheduler.c: parking (sched_init, line 342, starts both empty) ----
    wait_queue,    \* Scheduler.wait_queue, head first
    waiting_procs  \* Scheduler.waiting_procs

VARIABLES
    \* ---- compiler/irgen.c: one GenContext and the function it generates ----
    irgen          \* func: the AstFnDecl; pc, cursor: where gen_func is; blocks:
                   \* the IrBlocks of cur_fn in creation order (a block's id is its
                   \* index), each a label and its instructions; cur_block,
                   \* break_bb, continue_bb: block ids (0 = NULL); locals: the
                   \* first local_count entries of locals[]; vreg_counter

vars == <<mbVars, arcVars, barVars, mtxVars, schedVars, chanVars, ovfVars, lexer,
        parser, sema, irgen, wait_queue, waiting_procs>>

\* What the actions of one subsystem leave alone: every other subsystem.
nonMbVars == <<arcVars, barVars, mtxVars, schedVars, chanVars, ovfVars, lexer, parser,
        sema, irgen, wait_queue, waiting_procs>>
nonArcVars == <<mbVars, barVars, mtxVars, schedVars, chanVars, ovfVars, lexer, parser,
        sema, irgen, wait_queue, waiting_procs>>
nonBarVars == <<mbVars, arcVars, mtxVars, schedVars, chanVars, ovfVars, lexer, parser,
        sema, irgen, wait_queue, waiting_procs>>
nonMtxVars == <<mbVars, arcVars, barVars, schedVars, chanVars, ovfVars, lexer, parser,
        sema, irgen, wait_queue, waiting_procs>>
nonSchedVars == <<mbVars, arcVars, barVars, mtxVars, chanVars, ovfVars, lexer, parser,
        sema, irgen, wait_queue, waiting_procs>>
nonChanVars == <<mbVars, arcVars, barVars, mtxVars, schedVars, ovfVars, lexer, parser,
        sema, irgen, wait_queue, waiting_procs>>
nonOvfVars == <<mbVars, arcVars, barVars, mtxVars, schedVars, chanVars, lexer, parser,
        sema, irgen, wait_queue, waiting_procs>>
nonLexVars == <<mbVars, arcVars, barVars, mtxVars, schedVars, chanVars, ovfVars,
        parser, sema, irgen, wait_queue, waiting_procs>>
nonParserVars == <<mbVars, arcVars, barVars, mtxVars, schedVars, chanVars, ovfVars,
        lexer, sema, irgen, wait_queue, waiting_procs>>
nonSemaVars == <<mbVars, arcVars, barVars, mtxVars, schedVars, chanVars, ovfVars,
        lexer, parser, irgen, wait_queue, waiting_procs>>
nonIrgenVars == <<mbVars, arcVars, barVars, mtxVars, schedVars, chanVars, ovfVars,
        lexer, parser, sema, wait_queue, waiting_procs>>
nonMbOvfVars == <<arcVars, barVars, mtxVars, schedVars, chanVars, lexer, parser, sema,
        irgen, wait_queue, waiting_procs>>


NULL == 0

(***************************************************************************)
(*                         mailbox.c  (MPSC queue)                          *)
(***************************************************************************)

\* Bounds of the mailbox model: the number of producers, and the number of
\* mailbox_send calls they make between them.
MaxProducers == 2
MaxMsgs == 4

Producers == 1..MaxProducers
\* Addresses malloc can hand out: the dummy, every message in flight, and one
\* spare so that a freed address can be handed out again.
Nodes == 1..(MaxMsgs + 2)

\* The tag a producer puts on its i-th message; the dummy carries tag 0.
Tag(p, i) == p * 10 + i
TagProducer(t) == t \div 10
TagSeq(t) == t % 10

\* mailbox_create: a dummy node with tag 0, head = tail = dummy, count = 0.
MbInit ==
    /\ msg_next = [n \in Nodes |-> NULL]
    /\ msg_tag = [n \in Nodes |-> 0]
    /\ msg_live = {1}
    /\ mbox_head = 1
    /\ mbox_tail = 1
    /\ mbox_count = 0
    /\ snd_pc = [p \in Producers |-> "idle"]
    /\ snd_prev = [p \in Producers |-> NULL]
    /\ snd_msg = [p \in Producers |-> NULL]
    /\ snd_done = [p \in Producers |-> 0]
    /\ rcv_pc = "idle"
    /\ rcv_next = NULL
    /\ received = [p \in 0..MaxProducers |-> <<>>]
    /\ mbox_fault = FALSE

\* The mailbox variables of a specification that does not use the mailbox.
MbParked ==
    /\ msg_next = <<>> /\ msg_tag = <<>> /\ msg_live = {}
    /\ mbox_head = NULL /\ mbox_tail = NULL /\ mbox_count = 0
    /\ snd_pc = <<>> /\ snd_prev = <<>> /\ snd_msg = <<>>
    /\ snd_done = <<>>
    /\ rcv_pc = "idle" /\ rcv_next = NULL /\ received = <<>>
    /\ mbox_fault = FALSE

\* The number of mailbox_send calls begun so far, over all producers.
TotalSent == LET S[k \in 0..MaxProducers] ==
                    IF k = 0 THEN 0 ELSE S[k - 1] + snd_done[k]
             IN S[MaxProducers]

\* malloc in message_create: the lowest free address, so that an address
\* freed by the consumer is handed out again by the next allocation.
Malloc == CHOOSE n \in Nodes \ msg_live : \A m \in Nodes \ msg_live : n <= m

\* A mailbox_send that enqueues at the head instead of the tail (a LIFO push).
SendExchangeAtHead(p) ==
    /\ snd_pc[p] = "idle"
    /\ TotalSent < MaxMsgs
    /\ LET n == Malloc IN
        /\ msg_live' = msg_live \cup {n}
        /\ msg_tag' = [msg_tag EXCEPT ![n] = Tag(p, snd_done[p] + 1)]
        /\ msg_next' = [msg_next EXCEPT ![n] = msg_next[mbox_head]]
        /\ snd_prev' = [snd_prev EXCEPT ![p] = mbox_head]
        /\ snd_msg' = [snd_msg EXCEPT ![p] = n]
    /\ snd_done' = [snd_done EXCEPT ![p] = @ + 1]
    /\ snd_pc' = [snd_pc EXCEPT ![p] = "link"]
    /\ UNCHANGED <<mbox_head, mbox_tail, mbox_count, rcv_pc, rcv_next,
                   received, mbox_fault>>
    /\ UNCHANGED nonMbVars

\* mailbox_send lines 89-93: message_create, then the atomic exchange of tail.
SendExchange(p) ==
    /\ snd_pc[p] = "idle"
    /\ TotalSent < MaxMsgs
    /\ LET n == Malloc IN
        /\ msg_live' = msg_live \cup {n}
        /\ msg_tag' = [msg_tag EXCEPT ![n] = Tag(p, snd_done[p] + 1)]
        /\ msg_next' = [msg_next EXCEPT ![n] = NULL]
        /\ snd_prev' = [snd_prev EXCEPT ![p] = mbox_tail]
        /\ snd_msg' = [snd_msg EXCEPT ![p] = n]
        /\ mbox_tail' = n
    /\ snd_done' = [snd_done EXCEPT ![p] = @ + 1]
    /\ snd_pc' = [snd_pc EXCEPT ![p] = "link"]
    /\ UNCHANGED <<mbox_head, mbox_count, rcv_pc, rcv_next, received, mbox_fault>>
    /\ UNCHANGED nonMbVars

\* mailbox_send lines 94-100: atomic_store(&prev->next, msg), then
\* atomic_fetch_add(&mbox->count, 1) and return.  Nothing in mailbox_send or
\* mailbox_try_receive reads count, so the two stores are taken as one step.
SendLink(p) ==
    /\ snd_pc[p] = "link"
    /\ msg_next' = [msg_next EXCEPT ![snd_prev[p]] = snd_msg[p]]
    /\ mbox_fault' = (mbox_fault \/ snd_prev[p] \notin msg_live)
    /\ mbox_count' = mbox_count + 1
    /\ snd_pc' = [snd_pc EXCEPT ![p] = "idle"]
    /\ UNCHANGED <<msg_tag, msg_live, mbox_head, mbox_tail,
                   snd_prev, snd_msg, snd_done, rcv_pc, rcv_next, received>>
    /\ UNCHANGED nonMbVars

\* mailbox_try_receive lines 106-115: load head, load head->next; NULL means
\* empty and the call returns NULL at once.
TryReceiveLoad ==
    /\ rcv_pc = "idle"
    /\ rcv_next' = msg_next[mbox_head]
    /\ rcv_pc' = IF msg_next[mbox_head] = NULL THEN "idle" ELSE "dequeue"
    /\ mbox_fault' = (mbox_fault \/ mbox_head \notin msg_live)
    /\ UNCHANGED <<msg_next, msg_tag, msg_live, mbox_head, mbox_tail, mbox_count,
                   snd_pc, snd_prev, snd_msg, snd_done, received>>
    /\ UNCHANGED nonMbVars

\* The tag mailbox_try_receive returns: that of `next` (lines 126-128).
ReturnedTagOfHead(head, next) == msg_tag[head]

ReturnedTag(head, next) == msg_tag[next]

\* mailbox_try_receive lines 118-135: head = next, count--, free the old
\* dummy, return a carrier with next's tag.
TryReceiveDequeue ==
    /\ rcv_pc = "dequeue"
    /\ mbox_head' = rcv_next
    /\ mbox_count' = mbox_count - 1
    /\ msg_live' = msg_live \ {mbox_head}
    /\ LET t == ReturnedTag(mbox_head, rcv_next) IN
        received' = [received EXCEPT ![TagProducer(t)] = Append(@, TagSeq(t))]
    /\ mbox_fault' = (mbox_fault \/ rcv_next \notin msg_live)
    /\ rcv_pc' = "idle"
    /\ rcv_next' = NULL
    /\ UNCHANGED <<msg_next, msg_tag, mbox_tail,
                   snd_pc, snd_prev, snd_msg, snd_done>>
    /\ UNCHANGED nonMbVars

MbNext ==
    \/ \E p \in Producers : SendExchange(p)
    \/ \E p \in Producers : SendLink(p)
    \/ TryReceiveLoad
    \/ TryReceiveDequeue

(***************************************************************************)
(*                 mailbox.h, mailbox.c  (overflow policies)                *)
(***************************************************************************)

\* Bound of the overflow model: the largest capacity a mailbox is given.
MaxCapacity == 2

\* mailbox.h lines 43-45: MAILBOX_OVERFLOW_BLOCK, _DROP, _PANIC.
OverflowPolicies == {"Block", "Drop", "Panic"}

\* The capacity field of a new mailbox: the argument of mailbox_create_ex;
\* mailbox_create (lines 52-68) leaves the malloc'ed field as it finds it.
OvfInit ==
    /\ mbox_capacity \in 0..MaxCapacity
    /\ ovf_blocked = [p \in Producers |-> FALSE]
    /\ ovf_dropped = 0
    /\ ovf_panicked = FALSE

\* The overflow variables of a specification that does not use them.
OvfParked ==
    /\ mbox_capacity = 0 /\ ovf_blocked = <<>> /\ ovf_dropped = 0
    /\ ovf_panicked = FALSE

\* The overflow condition: capacity > 0 and count >= capacity.
MailboxFull == mbox_capacity > 0 /\ mbox_count >= mbox_capacity

\* mailbox_send_ex on a mailbox that is not full: the message is enqueued as
\* mailbox_send enqueues it (exchange of tail, store of prev->next, count + 1).
\* The test of count and the enqueue are taken as one step.
SendExEnqueue(p) ==
    /\ snd_pc[p] = "idle"
    /\ TotalSent < MaxMsgs
    /\ ~ovf_panicked
    /\ ~MailboxFull
    /\ LET n == Malloc IN
        /\ msg_live' = msg_live \cup {n}
        /\ msg_tag' = [msg_tag EXCEPT ![n] = Tag(p, snd_done[p] + 1)]
        /\ msg_next' = [msg_next EXCEPT ![n] = NULL, ![mbox_tail] = n]
        /\ mbox_tail' = n
    /\ mbox_fault' = (mbox_fault \/ mbox_tail \notin msg_live)
    /\ mbox_count' = mbox_count + 1
    /\ snd_done' = [snd_done EXCEPT ![p] = @ + 1]
    /\ ovf_blocked' = [ovf_blocked EXCEPT ![p] = FALSE]
    /\ UNCHANGED <<mbox_head, snd_pc, snd_prev, snd_msg, rcv_pc, rcv_next, received>>
    /\ UNCHANGED <<mbox_capacity, ovf_dropped, ovf_panicked>>
    /\ UNCHANGED nonMbOvfVars

\* mailbox_send_ex on a full mailbox: under Block the sender yields and will
\* try again, under Drop the message is discarded, under Panic the program
\* aborts.
SendExOverflow(p, policy) ==
    /\ snd_pc[p] = "idle"
    /\ TotalSent < MaxMsgs
    /\ ~ovf_panicked
    /\ MailboxFull
    /\ ovf_blocked' = [ovf_blocked EXCEPT ![p] = (policy = "Block")]
    /\ ovf_dropped' = IF policy = "Drop" THEN ovf_dropped + 1 ELSE ovf_dropped
    /\ snd_done' = IF policy = "Drop" THEN [snd_done EXCEPT ![p] = @ + 1] ELSE snd_done
    /\ ovf_panicked' = (policy = "Panic")
    /\ UNCHANGED <<msg_next, msg_tag, msg_live, mbox_head, mbox_tail, mbox_count,
                   snd_pc, snd_prev, snd_msg, rcv_pc, rcv_next, received, mbox_fault>>
    /\ UNCHANGED mbox_capacity
    /\ UNCHANGED nonMbOvfVars

\* Senders calling mailbox_send (what arnm_send calls, runtime.c line 67) and
\* mailbox_send_ex with any policy, and the owner calling mailbox_try_receive,
\* until a send aborts.
OvfNext ==
    \/ ~ovf_panicked /\ MbNext
    \/ \E p \in Producers : SendExEnqueue(p)
    \/ \E p \in Producers : \E policy \in OverflowPolicies : SendExOverflow(p, policy)

(***************************************************************************)
(*                    memory.c  (atomic reference counting)                 *)
(***************************************************************************)

\* Bounds of the ARC model: the workers sharing the object, and the number
\* of arnm_arc_retain calls they make between them.
MaxArcWorkers == 3
MaxRetains == 4

ArcWorkers == 1..MaxArcWorkers

\* arnm_arc_alloc: refcount = 1, and the allocating worker owns that reference.
ArcInit ==
    /\ arc_refcount = 1
    /\ arc_held = [w \in ArcWorkers |-> IF w = 1 THEN 1 ELSE 0]
    /\ arc_pc = [w \in ArcWorkers |-> "idle"]
    /\ arc_retains = 0
    /\ arc_dtor_runs = 0
    /\ arc_frees = 0
    /\ arc_fault = FALSE

\* The ARC variables of a specification that does not use ARC.
ArcParked ==
    /\ arc_refcount = 0 /\ arc_held = <<>> /\ arc_pc = <<>>
    /\ arc_retains = 0 /\ arc_dtor_runs = 0 /\ arc_frees = 0
    /\ arc_fault = FALSE

\* arnm_arc_retain: atomic_fetch_add(&header->refcount, 1).  Worker w owns a
\* reference and retains the object on behalf of worker v (possibly itself),
\* who from then on owns the new reference.
ArcRetain(w, v) ==
    /\ arc_held[w] >= 1
    /\ arc_retains < MaxRetains
    /\ arc_refcount' = arc_refcount + 1
    /\ arc_held' = [arc_held EXCEPT ![v] = @ + 1]
    /\ arc_retains' = arc_retains + 1
    /\ arc_fault' = (arc_fault \/ arc_frees > 0)
    /\ UNCHANGED <<arc_pc, arc_dtor_runs, arc_frees>>
    /\ UNCHANGED nonArcVars

\* A release that destroys when it leaves one reference behind.
ArcWasLastAtTwo(old) == old = 2

\* arnm_arc_release line 52: `if (old == 1)`, old being the value
\* atomic_fetch_sub returned.
ArcWasLast(old) == old = 1

\* arnm_arc_release lines 49-50: old = atomic_fetch_sub(&header->refcount, 1)
\* gives up one of the caller's references.
ArcReleaseDec(w) ==
    /\ arc_pc[w] = "idle"
    /\ arc_held[w] >= 1
    /\ arc_held' = [arc_held EXCEPT ![w] = @ - 1]
    /\ arc_refcount' = arc_refcount - 1
    /\ arc_pc' = [arc_pc EXCEPT ![w] = IF ArcWasLast(arc_refcount) THEN "destroy"
                                       ELSE "idle"]
    /\ arc_fault' = (arc_fault \/ arc_frees > 0)
    /\ UNCHANGED <<arc_retains, arc_dtor_runs, arc_frees>>
    /\ UNCHANGED nonArcVars

\* arnm_arc_release lines 54-57: header->dtor(obj), then free(header).
ArcReleaseDestroy(w) ==
    /\ arc_pc[w] = "destroy"
    /\ arc_dtor_runs' = arc_dtor_runs + 1
    /\ arc_frees' = arc_frees + 1
    /\ arc_pc' = [arc_pc EXCEPT ![w] = "idle"]
    /\ arc_fault' = (arc_fault \/ arc_frees > 0)
    /\ UNCHANGED <<arc_refcount, arc_held, arc_retains>>
    /\ UNCHANGED nonArcVars

ArcNext ==
    \/ \E w, v \in ArcWorkers : ArcRetain(w, v)
    \/ \E w \in ArcWorkers : ArcReleaseDec(w)
    \/ \E w \in ArcWorkers : ArcReleaseDestroy(w)

(***************************************************************************)
(*                          sync.c  (barrier)                               *)
(***************************************************************************)

\* Bounds of the barrier model: the N the barrier is created for (and the
\* number of processes that meet at it), and the rounds each of them plays.
BarrierThreshold == 3
MaxRounds == 3

BarProcs == 1..BarrierThreshold

\* arnm_barrier_create(N): count = 0, threshold = N, generation = 0.
BarInit ==
    /\ bar_count = 0
    /\ bar_generation = 0
    /\ bar_pc = [p \in BarProcs |-> "idle"]
    /\ bar_my_gen = [p \in BarProcs |-> 0]
    /\ bar_calls = [p \in BarProcs |-> 0]
    /\ bar_rets = [p \in BarProcs |-> 0]

\* The barrier variables of a specification that does not use the barrier.
BarParked ==
    /\ bar_count = 0 /\ bar_generation = 0
    /\ bar_pc = <<>> /\ bar_my_gen = <<>> /\ bar_calls = <<>> /\ bar_rets = <<>>

\* arnm_barrier_wait line 227: my_gen = atomic_load(&bar->generation), read
\* before the spin lock is taken.
BarrierEnter(p) ==
    /\ bar_pc[p] = "idle"
    /\ bar_calls[p] < MaxRounds
    /\ bar_calls' = [bar_calls EXCEPT ![p] = @ + 1]
    /\ bar_my_gen' = [bar_my_gen EXCEPT ![p] = bar_generation]
    /\ bar_pc' = [bar_pc EXCEPT ![p] = "arrive"]
    /\ UNCHANGED <<bar_count, bar_generation, bar_rets>>
    /\ UNCHANGED nonBarVars

\* A barrier that opens one arrival early.
BarrierIsLastButOne(arrived) == arrived + 1 = BarrierThreshold

\* arnm_barrier_wait line 232: `if (arrived == bar->threshold)`.
BarrierIsLast(arrived) == arrived = BarrierThreshold

\* arnm_barrier_wait lines 229-238, the section under bar->lock:
\* arrived = fetch_add(count, 1) + 1; the last to arrive resets count,
\* increments generation and returns, the others go on to wait.
BarrierArrive(p) ==
    /\ bar_pc[p] = "arrive"
    /\ LET arrived == bar_count + 1 IN
        IF BarrierIsLast(arrived)
        THEN /\ bar_count' = 0
             /\ bar_generation' = bar_generation + 1
             /\ bar_pc' = [bar_pc EXCEPT ![p] = "idle"]
             /\ bar_rets' = [bar_rets EXCEPT ![p] = @ + 1]
        ELSE /\ bar_count' = arrived
             /\ bar_pc' = [bar_pc EXCEPT ![p] = "wait"]
             /\ UNCHANGED <<bar_generation, bar_rets>>
    /\ UNCHANGED <<bar_my_gen, bar_calls>>
    /\ UNCHANGED nonBarVars

\* arnm_barrier_wait lines 241-243: `while (generation == my_gen) arnm_yield()`,
\* one evaluation of the loop condition.
BarrierSpin(p) ==
    /\ bar_pc[p] = "wait"
    /\ IF bar_generation = bar_my_gen[p]
       THEN UNCHANGED <<bar_pc, bar_rets>>
       ELSE /\ bar_pc' = [bar_pc EXCEPT ![p] = "idle"]
            /\ bar_rets' = [bar_rets EXCEPT ![p] = @ + 1]
    /\ UNCHANGED <<bar_count, bar_generation, bar_my_gen, bar_calls>>
    /\ UNCHANGED nonBarVars

BarNext ==
    \/ \E p \in BarProcs : BarrierEnter(p)
    \/ \E p \in BarProcs : BarrierArrive(p)
    \/ \E p \in BarProcs : BarrierSpin(p)

(***************************************************************************)
(*                           sync.c  (mutex)                                *)
(***************************************************************************)

\* Bound of the mutex model: the processes that use the mutex.  Each of them
\* may call try_lock, lock and unlock at any time, in any order.
MaxMutexProcs == 3

MutexProcs == 1..MaxMutexProcs

\* arnm_mutex_create: locked = false, owner = NULL.
MtxInit ==
    /\ mtx_locked = FALSE
    /\ mtx_owner = NULL
    /\ mtx_pc = [p \in MutexProcs |-> "idle"]
    /\ mtx_holders = {}
    /\ mtx_refused = FALSE
    /\ mtx_aborted = FALSE

\* The mutex variables of a specification that does not use the mutex.
MtxParked ==
    /\ mtx_locked = FALSE /\ mtx_owner = NULL /\ mtx_pc = <<>>
    /\ mtx_holders = {} /\ mtx_refused = FALSE /\ mtx_aborted = FALSE

\* arnm_mutex_try_lock line 44: the compare-exchange of locked from false to
\* true.  On failure the call returns false (from lock's loop: arnm_yield and
\* try again), on success the owner store is next.
MutexCas(p, onFailure) ==
    IF ~mtx_locked
    THEN /\ mtx_locked' = TRUE
         /\ mtx_holders' = mtx_holders \cup {p}
         /\ mtx_pc' = [mtx_pc EXCEPT ![p] = "set_owner"]
    ELSE /\ mtx_pc' = [mtx_pc EXCEPT ![p] = onFailure]
         /\ UNCHANGED <<mtx_locked, mtx_holders>>

\* arnm_mutex_try_lock lines 38-44, 49, called by the process itself.
MutexTryLock(p) ==
    /\ ~mtx_aborted
    /\ mtx_pc[p] = "idle"
    /\ MutexCas(p, "idle")
    /\ UNCHANGED <<mtx_owner, mtx_refused, mtx_aborted>>
    /\ UNCHANGED nonMtxVars

\* arnm_mutex_try_lock lines 45-46: mtx->owner = self; return true.
MutexSetOwner(p) ==
    /\ ~mtx_aborted
    /\ mtx_pc[p] = "set_owner"
    /\ mtx_owner' = p
    /\ mtx_pc' = [mtx_pc EXCEPT ![p] = "idle"]
    /\ UNCHANGED <<mtx_locked, mtx_holders, mtx_refused, mtx_aborted>>
    /\ UNCHANGED nonMtxVars

\* A deadlock check that fires whenever the mutex has an owner.
MutexIsReentryOfAnyOwner(owner, self) == owner # NULL /\ self # NULL

\* arnm_mutex_lock line 58: the deadlock check, mtx->owner == self && self != NULL.
MutexIsReentry(owner, self) == owner = self /\ self # NULL

\* arnm_mutex_lock lines 55-61: abort() when the caller is the owner.
MutexLockEnter(p) ==
    /\ ~mtx_aborted
    /\ mtx_pc[p] = "idle"
    /\ IF MutexIsReentry(mtx_owner, p)
       THEN mtx_aborted' = TRUE /\ UNCHANGED mtx_pc
       ELSE mtx_pc' = [mtx_pc EXCEPT ![p] = "spin"] /\ UNCHANGED mtx_aborted
    /\ UNCHANGED <<mtx_locked, mtx_owner, mtx_holders, mtx_refused>>
    /\ UNCHANGED nonMtxVars

\* arnm_mutex_lock lines 64-66: one turn of `while (!try_lock) arnm_yield()`.
MutexLockSpin(p) ==
    /\ ~mtx_aborted
    /\ mtx_pc[p] = "spin"
    /\ MutexCas(p, "spin")
    /\ UNCHANGED <<mtx_owner, mtx_refused, mtx_aborted>>
    /\ UNCHANGED nonMtxVars

\* An unlock without the owner check.
MutexMayUnlockAnyone(owner, self) == TRUE

\* arnm_mutex_unlock line 75, for a caller that is a process (self != NULL):
\* the call goes on only if mtx->owner == self.
MutexMayUnlock(owner, self) == owner = self

\* arnm_mutex_unlock lines 72-78: the owner check; a non-owner gets the
\* warning and the call returns.
MutexUnlockCheck(p) ==
    /\ ~mtx_aborted
    /\ mtx_pc[p] = "idle"
    /\ IF MutexMayUnlock(mtx_owner, p)
       THEN /\ mtx_pc' = [mtx_pc EXCEPT ![p] = "unlock_clear"]
            /\ UNCHANGED mtx_refused
       ELSE /\ mtx_refused' = (mtx_refused \/ mtx_holders \ {p} # {})
            /\ UNCHANGED mtx_pc
    /\ UNCHANGED <<mtx_locked, mtx_owner, mtx_holders, mtx_aborted>>
    /\ UNCHANGED nonMtxVars

\* arnm_mutex_unlock line 80: mtx->owner = NULL.
MutexUnlockClear(p) ==
    /\ ~mtx_aborted
    /\ mtx_pc[p] = "unlock_clear"
    /\ mtx_owner' = NULL
    /\ mtx_pc' = [mtx_pc EXCEPT ![p] = "unlock_release"]
    /\ UNCHANGED <<mtx_locked, mtx_holders, mtx_refused, mtx_aborted>>
    /\ UNCHANGED nonMtxVars

\* arnm_mutex_unlock line 81: atomic_store(&mtx->locked, false).
MutexUnlockRelease(p) ==
    /\ ~mtx_aborted
    /\ mtx_pc[p] = "unlock_release"
    /\ mtx_locked' = FALSE
    /\ mtx_holders' = mtx_holders \ {p}
    /\ mtx_refused' = FALSE
    /\ mtx_pc' = [mtx_pc EXCEPT ![p] = "idle"]
    /\ UNCHANGED <<mtx_owner, mtx_aborted>>
    /\ UNCHANGED nonMtxVars

MtxNext ==
    \/ \E p \in MutexProcs : MutexTryLock(p)
    \/ \E p \in MutexProcs : MutexSetOwner(p)
    \/ \E p \in MutexProcs : MutexLockEnter(p)
    \/ \E p \in MutexProcs : MutexLockSpin(p)
    \/ \E p \in MutexProcs : MutexUnlockCheck(p)
    \/ \E p \in MutexProcs : MutexUnlockClear(p)
    \/ \E p \in MutexProcs : MutexUnlockRelease(p)

(***************************************************************************)
(*                           sync.c  (channel)                              *)
(***************************************************************************)

\* Bounds of the channel model: the capacity the channel is created with, and
\* the processes that use it.  Each of them may call send, try_send, receive,
\* try_receive and close at any time, in any order.
ChanCapacity == 2
MaxChanProcs == 3

ChanProcs == 1..MaxChanProcs
ChanSlots == 0..(ChanCapacity - 1)

\* The data every send passes: a pointer other than NULL.
ChanData == 1

\* arnm_channel_create: an empty buffer, head = tail = count = 0, not closed.
ChanInit ==
    /\ chan_buffer = [i \in ChanSlots |-> NULL]
    /\ chan_head = 0
    /\ chan_tail = 0
    /\ chan_count = 0
    /\ chan_closed = FALSE
    /\ ch_op = [p \in ChanProcs |-> "none"]
    /\ ch_pc = [p \in ChanProcs |-> "idle"]
    /\ ch_waited = [p \in ChanProcs |-> FALSE]
    /\ ch_result = [p \in ChanProcs |-> "none"]
    /\ ch_late = [p \in ChanProcs |-> FALSE]
    /\ ch_at_close = [p \in ChanProcs |-> "none"]

\* The channel variables of a specification that does not use the channel.
ChanParked ==
    /\ chan_buffer = <<>> /\ chan_head = 0 /\ chan_tail = 0 /\ chan_count = 0
    /\ chan_closed = FALSE /\ ch_op = <<>> /\ ch_pc = <<>> /\ ch_waited = <<>>
    /\ ch_result = <<>>
    /\ ch_late = <<>> /\ ch_at_close = <<>>

\* A process enters one of the four calls: arnm_channel_send (line 138) and
\* arnm_channel_try_send (line 118) start at the closed test of try_send,
\* arnm_channel_receive (line 172) and arnm_channel_try_receive (line 151) at
\* the locked section of try_receive.
ChanCall(p, op) ==
    /\ ch_pc[p] = "idle"
    /\ ch_op' = [ch_op EXCEPT ![p] = op]
    /\ ch_pc' = [ch_pc EXCEPT ![p] = IF op \in {"send", "try_send"} THEN "check" ELSE "recv"]
    /\ ch_waited' = [ch_waited EXCEPT ![p] = FALSE]
    /\ ch_result' = [ch_result EXCEPT ![p] = "none"]
    /\ ch_late' = [ch_late EXCEPT ![p] = chan_closed]
    /\ ch_at_close' = [ch_at_close EXCEPT ![p] = "none"]
    /\ UNCHANGED <<chan_buffer, chan_head, chan_tail, chan_count, chan_closed>>
    /\ UNCHANGED nonChanVars

\* The call of p returns r.
ChanReturn(p, r) ==
    /\ ch_op' = [ch_op EXCEPT ![p] = "none"]
    /\ ch_pc' = [ch_pc EXCEPT ![p] = "idle"]
    /\ ch_result' = [ch_result EXCEPT ![p] = r]
    /\ UNCHANGED ch_waited

\* arnm_channel_try_send has returned false: to its caller when that is the
\* process itself, else to the loop of arnm_channel_send (line 141), which
\* goes on to its closed test (line 142).
ChanTrySendFailed(p) ==
    IF ch_op[p] = "try_send"
    THEN ChanReturn(p, "false")
    ELSE /\ ch_pc' = [ch_pc EXCEPT ![p] = "failed"]
         /\ ch_waited' = [ch_waited EXCEPT ![p] = TRUE]
         /\ UNCHANGED <<ch_op, ch_result>>

\* arnm_channel_try_send line 119: return false if the channel is closed.
ChanTrySendCheck(p) ==
    /\ ch_pc[p] = "check"
    /\ IF chan_closed
       THEN ChanTrySendFailed(p)
       ELSE /\ ch_pc' = [ch_pc EXCEPT ![p] = "lock"]
            /\ UNCHANGED <<ch_op, ch_waited, ch_result>>
    /\ UNCHANGED <<chan_buffer, chan_head, chan_tail, chan_count, chan_closed,
                   ch_late, ch_at_close>>
    /\ UNCHANGED nonChanVars

\* arnm_channel_try_send lines 121-135, under chan->lock: false when the
\* channel is full, else store at tail, advance tail, count + 1, true.
ChanTrySendLocked(p) ==
    /\ ch_pc[p] = "lock"
    /\ IF chan_count >= ChanCapacity
       THEN /\ ChanTrySendFailed(p)
            /\ UNCHANGED <<chan_buffer, chan_tail, chan_count>>
       ELSE /\ chan_buffer' = [chan_buffer EXCEPT ![chan_tail] = ChanData]
            /\ chan_tail' = (chan_tail + 1) % ChanCapacity
            /\ chan_count' = chan_count + 1
            /\ ChanReturn(p, "true")
    /\ UNCHANGED <<chan_head, chan_closed, ch_late, ch_at_close>>
    /\ UNCHANGED nonChanVars

\* arnm_channel_send lines 142-145: after a failed try_send, return false if
\* the channel is closed, else arnm_yield() and try again.
ChanSendRetry(p) ==
    /\ ch_pc[p] = "failed"
    /\ IF chan_closed
       THEN ChanReturn(p, "false")
       ELSE /\ ch_pc' = [ch_pc EXCEPT ![p] = "check"]
            /\ UNCHANGED <<ch_op, ch_waited, ch_result>>
    /\ UNCHANGED <<chan_buffer, chan_head, chan_tail, chan_count, chan_closed,
                   ch_late, ch_at_close>>
    /\ UNCHANGED nonChanVars

\* arnm_channel_try_receive lines 154-169, under chan->lock: NULL when the
\* channel is empty (to the loop of arnm_channel_receive when that made the
\* call), else take the data at head, clear the slot, advance head, count - 1.
ChanTryReceiveLocked(p) ==
    /\ ch_pc[p] = "recv"
    /\ IF chan_count = 0
       THEN /\ IF ch_op[p] = "try_receive"
               THEN ChanReturn(p, "null")
               ELSE /\ ch_pc' = [ch_pc EXCEPT ![p] = "recv_failed"]
                    /\ ch_waited' = [ch_waited EXCEPT ![p] = TRUE]
                    /\ UNCHANGED <<ch_op, ch_result>>
            /\ UNCHANGED <<chan_buffer, chan_head, chan_count>>
       ELSE /\ chan_buffer' = [chan_buffer EXCEPT ![chan_head] = NULL]
            /\ chan_head' = (chan_head + 1) % ChanCapacity
            /\ chan_count' = chan_count - 1
            /\ ChanReturn(p, IF chan_buffer[chan_head] = NULL THEN "null" ELSE "data")
    /\ UNCHANGED <<chan_tail, chan_closed, ch_late, ch_at_close>>
    /\ UNCHANGED nonChanVars

\* arnm_channel_receive lines 177-180: after a try_receive that returned
\* NULL, return NULL if the channel is closed, else arnm_yield() and try again.
ChanReceiveRetry(p) ==
    /\ ch_pc[p] = "recv_failed"
    /\ IF chan_closed
       THEN ChanReturn(p, "null")
       ELSE /\ ch_pc' = [ch_pc EXCEPT ![p] = "recv"]
            /\ UNCHANGED <<ch_op, ch_waited, ch_result>>
    /\ UNCHANGED <<chan_buffer, chan_head, chan_tail, chan_count, chan_closed,
                   ch_late, ch_at_close>>
    /\ UNCHANGED nonChanVars

\* What process q is blocked in: arnm_channel_send, with a try_send that has
\* failed, while the channel is full; arnm_channel_receive, with a
\* try_receive that has failed, while it is empty.
ChanBlockedIn(q) ==
    IF ~ch_waited[q] THEN "none"
    ELSE IF ch_op[q] = "send" /\ chan_count >= ChanCapacity THEN "send"
    ELSE IF ch_op[q] = "receive" /\ chan_count = 0 THEN "receive"
    ELSE "none"

\* arnm_channel_close lines 186-190: atomic_store(&chan->closed, true).
ChanClose(p) ==
    /\ ch_pc[p] = "idle"
    /\ ~chan_closed
    /\ chan_closed' = TRUE
    /\ ch_at_close' = [q \in ChanProcs |-> ChanBlockedIn(q)]
    /\ UNCHANGED <<chan_buffer, chan_head, chan_tail, chan_count,
                   ch_op, ch_pc, ch_waited, ch_result, ch_late>>
    /\ UNCHANGED nonChanVars

ChanOps == {"send", "try_send", "receive", "try_receive"}

ChanStep(p) ==
    \/ \E op \in ChanOps : ChanCall(p, op)
    \/ ChanTrySendCheck(p)
    \/ ChanTrySendLocked(p)
    \/ ChanSendRetry(p)
    \/ ChanTryReceiveLocked(p)
    \/ ChanReceiveRetry(p)
    \/ ChanClose(p)

ChanNext == \E p \in ChanProcs : ChanStep(p)

(***************************************************************************)
(*        scheduler.c, process.c, runtime.c  (workers and processes)        *)
(***************************************************************************)

\* Bounds of the scheduler model: the worker threads of a program that
\* spawns and yields, and of one that sends and receives; the process records
\* that can be allocated; the times one entry function is allowed to start;
\* and the messages sent.
SchedWorkers == 3
MsgWorkers == 2
MaxProcs == 2
MaxRuns == 2
MaxSends == 1

Workers == 0..(num_workers - 1)
Procs == 1..MaxProcs

\* Elements of q other than its head (runqueue_pop takes the head).
Tail1(q) == SubSeq(q, 2, Len(q))

\* The number of places p takes in queue q.
InQueue(q, p) == Cardinality({i \in 1..Len(q) : q[i] = p})

\* The program starts with sched_init(n) done, the processes 1..first spawned
\* from the main thread (tls_worker == NULL, so sched_enqueue pushes to the
\* global queue, as crt0.c and the tests do) and arnm_run entered: every
\* worker is at the top of worker_main's loop.
SchedInitWith(n, first) ==
    /\ num_workers = n
    /\ proc_state = [p \in Procs |-> IF p <= first THEN "Ready" ELSE "Unborn"]
    /\ proc_context = [p \in Procs |-> "entry"]
    /\ proc_freed = {}
    /\ proc_runs = [p \in Procs |-> 0]
    /\ proc_mbox = [p \in Procs |-> 0]
    /\ proc_got = [p \in Procs |-> 0]
    /\ global_queue = [i \in 1..first |-> i]
    /\ local_queue = [w \in 0..(n - 1) |-> <<>>]
    /\ active_procs = first
    /\ wk_pc = [w \in 0..(n - 1) |-> "next"]
    /\ wk_current = [w \in 0..(n - 1) |-> NULL]
    /\ wk_proc = [w \in 0..(n - 1) |-> NULL]
    /\ wk_i = [w \in 0..(n - 1) |-> 0]
    /\ wk_pos = [w \in 0..(n - 1) |-> "none"]
    /\ sends = 0
    /\ sched_fault = FALSE
    /\ sched_crashed = FALSE

\* The scheduler variables of a specification that does not use the scheduler.
SchedParked ==
    /\ num_workers = 0
    /\ proc_state = <<>> /\ proc_context = <<>> /\ proc_freed = {}
    /\ proc_runs = <<>> /\ proc_mbox = <<>> /\ proc_got = <<>>
    /\ global_queue = <<>> /\ local_queue = <<>> /\ active_procs = 0
    /\ wk_pc = <<>> /\ wk_current = <<>> /\ wk_proc = <<>> /\ wk_i = <<>>
    /\ wk_pos = <<>> /\ sends = 0
    /\ sched_fault = FALSE /\ sched_crashed = FALSE

\* worker_main lines 283-297 for the process p that sched_next returned: the
\* RUNTIME_ASSERT on its state (abort() when it fails), then current = proc,
\* state = RUNNING and the switch to proc->context, which resumes the process
\* wherever that context was last saved (at its entry if it never was).
Dispatch(w, p) ==
    /\ wk_proc' = [wk_proc EXCEPT ![w] = p]
    /\ sched_fault' = (sched_fault \/ p \in proc_freed)
    /\ IF proc_state[p] \in {"Ready", "Waiting"}
       THEN /\ wk_current' = [wk_current EXCEPT ![w] = p]
            /\ proc_state' = [proc_state EXCEPT ![p] = "Running"]
            /\ wk_pos' = [wk_pos EXCEPT ![w] = proc_context[p]]
            /\ wk_pc' = [wk_pc EXCEPT ![w] = "run"]
            /\ UNCHANGED sched_crashed
       ELSE /\ sched_crashed' = TRUE
            /\ UNCHANGED <<wk_current, proc_state, wk_pos, wk_pc>>

\* sched_next lines 213-225 and worker_main lines 280-297: pop the local
\* queue, else the global queue, and run what was popped; with both empty go
\* on to try_steal.  (Only code running on worker w pushes to w's local queue,
\* so the two pops are taken as one step.)
SchedNext(w) ==
    /\ ~sched_crashed
    /\ wk_pc[w] = "next"
    /\ IF local_queue[w] # <<>>
       THEN /\ local_queue' = [local_queue EXCEPT ![w] = Tail1(@)]
            /\ Dispatch(w, Head(local_queue[w]))
            /\ UNCHANGED <<global_queue, wk_i>>
       ELSE IF global_queue # <<>>
       THEN /\ global_queue' = Tail1(global_queue)
            /\ Dispatch(w, Head(global_queue))
            /\ UNCHANGED <<local_queue, wk_i>>
       ELSE /\ wk_pc' = [wk_pc EXCEPT ![w] = "steal"]
            /\ wk_i' = [wk_i EXCEPT ![w] = 1]
            /\ UNCHANGED <<local_queue, global_queue, wk_current, wk_proc, wk_pos,
                           proc_state, sched_fault, sched_crashed>>
    /\ UNCHANGED <<num_workers, proc_context, proc_freed, proc_runs, proc_mbox, proc_got,
                   active_procs, sends>>
    /\ UNCHANGED nonSchedVars

\* try_steal line 194: the victim of the i-th turn of the loop.
Victim(w, i) == (w + i) % num_workers

\* try_steal line 197: `runqueue_count(&victim->local_queue) > 1`.
Stealable(count) == count > 1

\* try_steal lines 193, 206: nothing taken from the i-th victim; on to the
\* next one, and past the last try_steal returns NULL.
StealMiss(w) ==
    IF wk_i[w] + 1 < num_workers
    THEN /\ wk_i' = [wk_i EXCEPT ![w] = @ + 1]
         /\ wk_pc' = [wk_pc EXCEPT ![w] = "steal"]
    ELSE /\ wk_i' = [wk_i EXCEPT ![w] = 0]
         /\ wk_pc' = [wk_pc EXCEPT ![w] = "idle"]

\* try_steal lines 193-197: one turn of the loop up to the read of the
\* victim's count.
StealCheck(w) ==
    /\ ~sched_crashed
    /\ wk_pc[w] = "steal"
    /\ IF Stealable(Len(local_queue[Victim(w, wk_i[w])]))
       THEN /\ wk_pc' = [wk_pc EXCEPT ![w] = "steal_pop"]
            /\ UNCHANGED wk_i
       ELSE StealMiss(w)
    /\ UNCHANGED <<num_workers, proc_state, proc_context, proc_freed, proc_runs, proc_mbox,
                   proc_got, global_queue, local_queue, active_procs,
                   wk_current, wk_proc, wk_pos, sends, sched_fault, sched_crashed>>
    /\ UNCHANGED nonSchedVars

\* try_steal lines 198-202 (steal_from, runqueue_pop of the victim's queue)
\* and, for a process so obtained, worker_main lines 283-297.
StealPop(w) ==
    /\ ~sched_crashed
    /\ wk_pc[w] = "steal_pop"
    /\ LET v == Victim(w, wk_i[w]) IN
       IF local_queue[v] # <<>>
       THEN /\ local_queue' = [local_queue EXCEPT ![v] = Tail1(@)]
            /\ Dispatch(w, Head(local_queue[v]))
            /\ wk_i' = [wk_i EXCEPT ![w] = 0]
       ELSE /\ StealMiss(w)
            /\ UNCHANGED <<local_queue, wk_current, wk_proc, wk_pos, proc_state,
                           sched_fault, sched_crashed>>
    /\ UNCHANGED <<num_workers, proc_context, proc_freed, proc_runs, proc_mbox, proc_got,
                   global_queue, active_procs, sends>>
    /\ UNCHANGED nonSchedVars

\* worker_main lines 307-315: nothing to run; leave the loop if active_procs
\* is 0, else usleep and go round again.
IdleCheck(w) ==
    /\ ~sched_crashed
    /\ wk_pc[w] = "idle"
    /\ wk_pc' = [wk_pc EXCEPT ![w] = IF active_procs = 0 THEN "exited" ELSE "next"]
    /\ UNCHANGED <<num_workers, proc_state, proc_context, proc_freed, proc_runs, proc_mbox,
                   proc_got, global_queue, local_queue, active_procs,
                   wk_current, wk_proc, wk_i, wk_pos, sends, sched_fault,
                   sched_crashed>>
    /\ UNCHANGED nonSchedVars

\* ---- the code a worker runs while it has switched to a process ----

\* The entry function starts: the first instruction of the process.
ProcEntry(w) ==
    /\ ~sched_crashed
    /\ wk_pc[w] = "run"
    /\ wk_pos[w] = "entry"
    /\ proc_runs[wk_current[w]] < MaxRuns
    /\ proc_runs' = [proc_runs EXCEPT ![wk_current[w]] = @ + 1]
    /\ wk_pos' = [wk_pos EXCEPT ![w] = "body"]
    /\ UNCHANGED <<num_workers, proc_state, proc_context, proc_freed, proc_mbox, proc_got,
                   global_queue, local_queue, active_procs,
                   wk_pc, wk_current, wk_proc, wk_i, sends, sched_fault,
                   sched_crashed>>
    /\ UNCHANGED nonSchedVars

\* malloc in proc_create: the lowest record not yet handed out (records are
\* not handed out again after free).
NewProc == CHOOSE q \in Procs : proc_state[q] = "Unborn" /\
                                \A r \in Procs : proc_state[r] = "Unborn" => q <= r

\* arnm_spawn called by a running process: proc_create (state READY, context
\* at the entry function), then sched_enqueue: proc_ready, active_procs++ and
\* the push to the local queue of the worker the caller runs on.
ProcSpawn(w) ==
    /\ ~sched_crashed
    /\ wk_pc[w] = "run"
    /\ wk_pos[w] = "body"
    /\ \E q \in Procs : proc_state[q] = "Unborn"
    /\ proc_state' = [proc_state EXCEPT ![NewProc] = "Ready"]
    /\ active_procs' = active_procs + 1
    /\ local_queue' = [local_queue EXCEPT ![w] = Append(@, NewProc)]
    /\ UNCHANGED <<num_workers, proc_context, proc_freed, proc_runs, proc_mbox, proc_got,
                   global_queue, wk_pc, wk_current, wk_proc, wk_i, wk_pos,
                   sends, sched_fault, sched_crashed>>
    /\ UNCHANGED nonSchedVars

\* arnm_sched_yield lines 253-266 entered with current->state = st: a READY
\* or RUNNING process is made READY and pushed to the worker's local queue, a
\* DEAD one is taken off active_procs, a WAITING one is left as it is.  The
\* context switch (line 269) is the next step.
SchedYield(w, st) ==
    LET current == wk_current[w] IN
    /\ IF st \in {"Ready", "Running"}
       THEN /\ proc_state' = [proc_state EXCEPT ![current] = "Ready"]
            /\ local_queue' = [local_queue EXCEPT ![w] = Append(@, current)]
            /\ UNCHANGED active_procs
       ELSE /\ proc_state' = [proc_state EXCEPT ![current] = st]
            /\ active_procs' = IF st = "Dead" THEN active_procs - 1 ELSE active_procs
            /\ UNCHANGED local_queue
    /\ sched_fault' = (sched_fault \/ current \in proc_freed)
    /\ wk_pc' = [wk_pc EXCEPT ![w] = "switch"]

\* arnm_yield called by a running process.
ProcYield(w) ==
    /\ ~sched_crashed
    /\ wk_pc[w] = "run"
    /\ wk_pos[w] = "body"
    /\ SchedYield(w, proc_state[wk_current[w]])
    /\ UNCHANGED <<num_workers, proc_context, proc_freed, proc_runs, proc_mbox, proc_got,
                   global_queue, wk_current, wk_proc, wk_i, wk_pos, sends,
                   sched_crashed>>
    /\ UNCHANGED nonSchedVars

\* The entry function returns (or the process calls arnm_exit):
\* arnm_process_exit_handler does proc_exit (state = DEAD), then
\* arnm_sched_yield.
ProcExit(w) ==
    /\ ~sched_crashed
    /\ wk_pc[w] = "run"
    /\ wk_pos[w] = "body"
    /\ SchedYield(w, "Dead")
    /\ wk_pos' = [wk_pos EXCEPT ![w] = "exited"]
    /\ UNCHANGED <<num_workers, proc_context, proc_freed, proc_runs, proc_mbox, proc_got,
                   global_queue, wk_current, wk_proc, wk_i, sends, sched_crashed>>
    /\ UNCHANGED nonSchedVars

\* arnm_send(target, ...) called by a running process that holds the handle
\* of target: runtime.c line 66 reads target->mailbox, mailbox_send enqueues.
ProcSend(w, target) ==
    /\ ~sched_crashed
    /\ wk_pc[w] = "run"
    /\ wk_pos[w] = "body"
    /\ sends < MaxSends
    /\ target # wk_current[w]
    /\ proc_state[target] # "Unborn"
    /\ sends' = sends + 1
    /\ proc_mbox' = [proc_mbox EXCEPT ![target] = @ + 1]
    /\ sched_fault' = (sched_fault \/ target \in proc_freed)
    /\ UNCHANGED <<num_workers, proc_state, proc_context, proc_freed, proc_runs, proc_got,
                   global_queue, local_queue, active_procs,
                   wk_pc, wk_current, wk_proc, wk_i, wk_pos, sched_crashed>>
    /\ UNCHANGED nonSchedVars

\* arnm_receive called by a running process, one turn of mailbox_receive's
\* loop (mailbox.c lines 144-154): a message if mailbox_try_receive has one,
\* else proc_wait (state = WAITING) and arnm_sched_yield.
ProcReceive(w) ==
    /\ ~sched_crashed
    /\ wk_pc[w] = "run"
    /\ wk_pos[w] \in {"body", "recv"}
    /\ LET self == wk_current[w] IN
       IF proc_mbox[self] > 0
       THEN /\ proc_mbox' = [proc_mbox EXCEPT ![self] = @ - 1]
            /\ proc_got' = [proc_got EXCEPT ![self] = @ + 1]
            /\ wk_pos' = [wk_pos EXCEPT ![w] = "body"]
            /\ UNCHANGED <<proc_state, local_queue, active_procs, wk_pc, sched_fault>>
       ELSE /\ SchedYield(w, "Waiting")
            /\ wk_pos' = [wk_pos EXCEPT ![w] = "recv"]
            /\ UNCHANGED <<proc_mbox, proc_got>>
    /\ UNCHANGED <<num_workers, proc_context, proc_freed, proc_runs, global_queue,
                   wk_current, wk_proc, wk_i, sends, sched_crashed>>
    /\ UNCHANGED nonSchedVars

\* arnm_sched_yield line 269: arnm_context_switch saves where the process
\* has got to in current->context and resumes the worker's scheduler context.
ContextSwitch(w) ==
    /\ ~sched_crashed
    /\ wk_pc[w] = "switch"
    /\ proc_context' = [proc_context EXCEPT ![wk_current[w]] = wk_pos[w]]
    /\ sched_fault' = (sched_fault \/ wk_current[w] \in proc_freed)
    /\ wk_pos' = [wk_pos EXCEPT ![w] = "none"]
    /\ wk_pc' = [wk_pc EXCEPT ![w] = "back"]
    /\ UNCHANGED <<num_workers, proc_state, proc_freed, proc_runs, proc_mbox, proc_got,
                   global_queue, local_queue, active_procs,
                   wk_current, wk_proc, wk_i, sends, sched_crashed>>
    /\ UNCHANGED nonSchedVars

\* worker_main lines 299-306: current = NULL, then `if (proc->state ==
\* PROC_STATE_DEAD) proc_destroy(proc)`, which frees the mailbox, the stack
\* and the record.
WorkerBack(w) ==
    /\ ~sched_crashed
    /\ wk_pc[w] = "back"
    /\ wk_current' = [wk_current EXCEPT ![w] = NULL]
    /\ sched_fault' = (sched_fault \/ wk_proc[w] \in proc_freed)
    /\ proc_freed' = IF proc_state[wk_proc[w]] = "Dead"
                     THEN proc_freed \cup {wk_proc[w]} ELSE proc_freed
    /\ wk_pc' = [wk_pc EXCEPT ![w] = "next"]
    /\ UNCHANGED <<num_workers, proc_state, proc_context, proc_runs, proc_mbox, proc_got,
                   global_queue, local_queue, active_procs,
                   wk_proc, wk_i, wk_pos, sends, sched_crashed>>
    /\ UNCHANGED nonSchedVars

\* Once a freed record or mailbox has been touched the behaviour of the
\* program is undefined: it may carry on over the stale contents (the steps
\* above), or it may be killed there and then (glibc aborts on the double
\* free it detects, an access to the unmapped stack faults).
SchedAbort ==
    /\ sched_fault
    /\ ~sched_crashed
    /\ sched_crashed' = TRUE
    /\ UNCHANGED <<num_workers, proc_state, proc_context, proc_freed, proc_runs,
                   proc_mbox, proc_got, global_queue, local_queue, active_procs,
                   wk_pc, wk_current, wk_proc, wk_i, wk_pos, sends, sched_fault>>
    /\ UNCHANGED nonSchedVars

\* One step of worker w's thread in a program whose processes spawn, yield
\* and exit.
WorkerStep(w) ==
    \/ SchedNext(w)
    \/ StealCheck(w)
    \/ StealPop(w)
    \/ IdleCheck(w)
    \/ ProcEntry(w)
    \/ ProcSpawn(w)
    \/ ProcYield(w)
    \/ ProcExit(w)
    \/ ContextSwitch(w)
    \/ WorkerBack(w)

\* One step of worker w's thread in a program whose processes send, receive
\* and exit.  (Nothing is pushed to a local queue, so no steal gets as far as
\* its pop.)
MsgWorkerStep(w) ==
    \/ SchedNext(w)
    \/ StealCheck(w)
    \/ IdleCheck(w)
    \/ ProcEntry(w)
    \/ \E target \in Procs : ProcSend(w, target)
    \/ ProcReceive(w)
    \/ ProcExit(w)
    \/ ContextSwitch(w)
    \/ WorkerBack(w)

SchedNextStep ==
    \/ \E w \in 0..(SchedWorkers - 1) : WorkerStep(w)
    \/ SchedAbort

MsgNextStep ==
    \/ \E w \in 0..(MsgWorkers - 1) : MsgWorkerStep(w)
    \/ SchedAbort

(***************************************************************************)
(*                          compiler/src/lexer.c                            *)
(***************************************************************************)

\* Bound of the lexer model: the length of the source text.
MaxSourceLen == 4

\* The bytes a source is made of: what comments are made of, an identifier
\* character and a whitespace character (which also ends a line comment).
LexChars == {"/", "*", "a", "\n"}

\* peek_char_at (lines 226-231): the byte at cursor + offset, NUL past the end.
PeekCharAt(offset) ==
    IF lexer.cursor + offset >= Len(lexer.source) THEN "NUL"
    ELSE lexer.source[lexer.cursor + offset + 1]

\* lexer_init (lines 197-215) on a source of at most MaxSourceLen bytes.
InitLexer ==
    /\ \E n \in 0..MaxSourceLen : \E src \in [1..n -> LexChars] :
          lexer = [source |-> src, cursor |-> 0, current |-> "none",
                   pc |-> "idle", depth |-> 0, open |-> FALSE]
    /\ MbParked /\ ArcParked /\ BarParked /\ MtxParked /\ SchedParked
    /\ ChanParked /\ OvfParked /\ parser = <<>> /\ sema = <<>>
    /\ irgen = <<>> /\ wait_queue = <<>> /\ waiting_procs = 0

\* lexer_next_token is called (line 438; has_peek is false) until it has
\* returned TOK_EOF.
LexerNextToken ==
    /\ lexer.pc = "idle"
    /\ lexer.current # "EOF"
    /\ lexer' = [lexer EXCEPT !.pc = "skip", !.open = FALSE]
    /\ UNCHANGED nonLexVars

\* skip_whitespace_and_comments, one turn of the loop of lines 248-289:
\* whitespace is skipped, a line comment is skipped to its end, a block
\* comment is entered with depth 1, anything else (or the end) leaves the loop.
SkipWhitespaceAndComments ==
    /\ lexer.pc = "skip"
    /\ LET \* the cursor after the loop of lines 261-263: the next "\n" or the end
           LineCommentEnd(from) ==
               CHOOSE k \in from..Len(lexer.source) :
                   /\ k = Len(lexer.source) \/ lexer.source[k + 1] = "\n"
                   /\ \A j \in from..(k - 1) : lexer.source[j + 1] # "\n"
       IN lexer' =
         IF lexer.cursor >= Len(lexer.source) THEN [lexer EXCEPT !.pc = "scan"]
         ELSE IF PeekCharAt(0) = "\n" THEN [lexer EXCEPT !.cursor = @ + 1]
         ELSE IF PeekCharAt(0) = "/" /\ PeekCharAt(1) = "/"
              THEN [lexer EXCEPT !.cursor = LineCommentEnd(lexer.cursor + 2)]
         ELSE IF PeekCharAt(0) = "/" /\ PeekCharAt(1) = "*"
              THEN [lexer EXCEPT !.cursor = @ + 2, !.depth = 1, !.pc = "block"]
         ELSE [lexer EXCEPT !.pc = "scan"]
    /\ UNCHANGED nonLexVars

\* skip_whitespace_and_comments, one turn of the loop of lines 272-284 and its
\* exit (line 285): "/*" nests, "*/" closes one level, any other byte is
\* skipped; the loop ends when depth is 0 or the input has ended.
SkipBlockComment ==
    /\ lexer.pc = "block"
    /\ lexer' =
         IF lexer.depth > 0 /\ lexer.cursor < Len(lexer.source)
         THEN IF PeekCharAt(0) = "/" /\ PeekCharAt(1) = "*"
              THEN [lexer EXCEPT !.cursor = @ + 2, !.depth = @ + 1]
              ELSE IF PeekCharAt(0) = "*" /\ PeekCharAt(1) = "/"
              THEN [lexer EXCEPT !.cursor = @ + 2, !.depth = @ - 1]
              ELSE [lexer EXCEPT !.cursor = @ + 1]
         ELSE [lexer EXCEPT !.pc = "skip", !.open = (@ \/ lexer.depth > 0)]
    /\ UNCHANGED nonLexVars

\* lexer_next_token lines 448-540: TOK_EOF at the end of the input, else the
\* token that starts at the cursor.
ScanToken ==
    /\ lexer.pc = "scan"
    /\ LET \* the cursor after scan_identifier's loop (lines 320-322)
           IdentifierEnd(from) ==
               CHOOSE k \in from..Len(lexer.source) :
                   /\ k = Len(lexer.source) \/ lexer.source[k + 1] # "a"
                   /\ \A j \in from..(k - 1) : lexer.source[j + 1] = "a"
       IN lexer' =
         IF lexer.cursor >= Len(lexer.source)
         THEN [lexer EXCEPT !.current = "EOF", !.pc = "idle"]
         ELSE IF PeekCharAt(0) = "a"
         THEN [lexer EXCEPT !.current = "IDENT", !.pc = "idle",
                            !.cursor = IdentifierEnd(lexer.cursor)]
         ELSE [lexer EXCEPT !.current = IF PeekCharAt(0) = "*" THEN "STAR" ELSE "SLASH",
                            !.pc = "idle", !.cursor = @ + 1]
    /\ UNCHANGED nonLexVars

(***************************************************************************)
(*                          compiler/src/parser.c                           *)
(***************************************************************************)

\* Bound of the expression model: the binary operators of one expression.
MaxOps == 3

\* parser.h line 28.
MAX_PARSE_ERRORS == 64

\* One operator token of every binary precedence level.
BinaryOpTokens == {"EQ", "PIPE_PIPE", "AND_AND", "EQ_EQ", "LT", "BANG", "PLUS", "STAR"}

\* A table with the levels of `!` and `+` exchanged.
GetPrecedenceSendOverTerm(kind) ==
    CASE kind = "EQ" -> 1
      [] kind = "PIPE_PIPE" -> 2
      [] kind = "AND_AND" -> 3
      [] kind = "EQ_EQ" -> 4
      [] kind = "LT" -> 5
      [] kind = "BANG" -> 7
      [] kind = "PLUS" -> 6
      [] kind = "STAR" -> 8
      [] OTHER -> 0

\* get_precedence (lines 261-287); the value is the Precedence enumerator
\* (lines 118-131): PREC_NONE = 0, PREC_ASSIGNMENT = 1, ... PREC_FACTOR = 8.
GetPrecedence(kind) ==
    CASE kind = "EQ" -> 1
      [] kind = "PIPE_PIPE" -> 2
      [] kind = "AND_AND" -> 3
      [] kind = "EQ_EQ" -> 4
      [] kind = "LT" -> 5
      [] kind = "BANG" -> 6
      [] kind = "PLUS" -> 7
      [] kind = "STAR" -> 8
      [] OTHER -> 0

\* The token lexer_next_token returns for the i-th call: TOK_EOF past the end.
TokenAt(i) == IF i > Len(parser.tokens) THEN "EOF" ELSE parser.tokens[i]

\* parse_precedence (lines 431-442) with parser->current the cur-th token:
\* advance, parse_prefix on the token now previous (an identifier makes a
\* leaf <<position>>, anything else is "expected expression" and NULL), then
\* the loop of lines 436-440, in which parse_infix is parse_binary (lines
\* 289-309): the right operand is parse_precedence(prec of the operator + 1)
\* and the node is <<position of the operator, left, right>>.  The result is
\* the expression and the position of parser->current after it.
RECURSIVE ParsePrecedence(_, _)
ParsePrecedence(cur, prec) ==
    LET RECURSIVE InfixLoop(_, _)
        InfixLoop(left, c) ==
            IF prec <= GetPrecedence(TokenAt(c))
            THEN LET right == ParsePrecedence(c + 1, GetPrecedence(TokenAt(c)) + 1)
                 IN IF right.ast = <<>> THEN right
                    ELSE InfixLoop(<<c, left, right.ast>>, right.cur)
            ELSE [ast |-> left, cur |-> c]
    IN IF TokenAt(cur) = "IDENT"
       THEN InfixLoop(<<cur>>, cur + 1)
       ELSE [ast |-> <<>>, cur |-> cur + 1]

\* parser_init (lines 985-994) on the tokens of an expression with up to
\* MaxOps binary operators: operand (operator operand)*.
InitParser ==
    /\ \E n \in 0..MaxOps : \E ops \in [1..n -> BinaryOpTokens] :
          parser = [tokens |-> [i \in 1..(2 * n + 1) |->
                                   IF i % 2 = 1 THEN "IDENT" ELSE ops[i \div 2]],
                    ast |-> <<>>, pc |-> "start",
                    had_error |-> FALSE, panic_mode |-> FALSE, error_count |-> 0,
                    raised |-> FALSE, window |-> 0]
    /\ MbParked /\ ArcParked /\ BarParked /\ MtxParked /\ SchedParked
    /\ ChanParked /\ OvfParked /\ lexer = <<>> /\ sema = <<>>
    /\ irgen = <<>> /\ wait_queue = <<>> /\ waiting_procs = 0

\* parse_expression (lines 444-446): parse_precedence(PREC_ASSIGNMENT).
ParseExpression ==
    /\ parser.pc = "start"
    /\ parser' = [parser EXCEPT !.ast = ParsePrecedence(1, 1).ast, !.pc = "done"]
    /\ UNCHANGED nonParserVars

\* parser_init (lines 985-994) for a parse of any token stream: what the
\* stream makes the parse functions do is any sequence of error_at calls and,
\* where the code calls it (lines 466 and 1009), synchronize.
InitDiagnostics ==
    /\ parser = [tokens |-> <<>>, ast |-> <<>>, pc |-> "parsing",
                 had_error |-> FALSE, panic_mode |-> FALSE, error_count |-> 0,
                 raised |-> FALSE, window |-> 0]
    /\ MbParked /\ ArcParked /\ BarParked /\ MtxParked /\ SchedParked
    /\ ChanParked /\ OvfParked /\ lexer = <<>> /\ sema = <<>>
    /\ irgen = <<>> /\ wait_queue = <<>> /\ waiting_procs = 0

\* An error_at that records whatever the mode.
ErrorIsNeverSuppressed(panic_mode) == FALSE

\* error_at line 62: in panic mode the call returns at once.
ErrorIsSuppressed(panic_mode) == panic_mode

\* error_at (lines 61-72), called through error or error_current by a parse
\* function: unless suppressed, set panic_mode and had_error and, while fewer
\* than MAX_PARSE_ERRORS diagnostics are recorded, record one.
ErrorAt ==
    /\ parser.pc = "parsing"
    /\ parser' =
         IF ErrorIsSuppressed(parser.panic_mode) THEN [parser EXCEPT !.raised = TRUE]
         ELSE IF parser.error_count < MAX_PARSE_ERRORS
         THEN [parser EXCEPT !.raised = TRUE, !.panic_mode = TRUE, !.had_error = TRUE,
                             !.error_count = @ + 1, !.window = @ + 1]
         ELSE [parser EXCEPT !.raised = TRUE, !.panic_mode = TRUE, !.had_error = TRUE]
    /\ UNCHANGED nonParserVars

\* synchronize (lines 90-112), called when panic_mode is set (lines 466 and
\* 1009): panic_mode = false, then tokens are skipped to a recovery point.
Synchronize ==
    /\ parser.pc = "parsing"
    /\ parser.panic_mode
    /\ parser' = [parser EXCEPT !.panic_mode = FALSE, !.window = 0]
    /\ UNCHANGED nonParserVars


\* Bound of the top-level loop model: the tokens of the stream before TOK_EOF.
MaxTokens == 4

\* The token kinds of the streams of the top-level loop model: none of them
\* opens a declaration, so parse_declaration takes its last path (lines
\* 976-977) on each; a `fn`, `actor` or `struct` would enter the declaration
\* parsers, which are not part of this model.
ProgramTokens == {"SEMI", "LET", "RETURN", "IDENT"}

\* parser_init (lines 985-994) on every stream of at most MaxTokens tokens:
\* the one advance makes the first token current (pos 1) and copies the
\* uninitialised parser->current of the caller's Parser (main.c:329-330)
\* into parser->previous, whose kind is therefore any kind.
InitProgram ==
    /\ \E len \in 0..MaxTokens : \E tokens \in [1..len -> ProgramTokens] :
       \E previous \in ProgramTokens \cup {"EOF"} :
          parser = [tokens |-> tokens, pos |-> 1, previous |-> previous, pc |-> "program",
                    had_error |-> FALSE, panic_mode |-> FALSE, error_count |-> 0,
                    decl_count |-> 0]
    /\ MbParked /\ ArcParked /\ BarParked /\ MtxParked /\ SchedParked
    /\ ChanParked /\ OvfParked /\ lexer = <<>> /\ sema = <<>>
    /\ irgen = <<>> /\ wait_queue = <<>> /\ waiting_procs = 0

\* One iteration of the loop of parser_parse_program (lines 1000-1010) with
\* a current token other than TOK_EOF: parse_declaration matches none of
\* `fn`, `actor`, `struct`, calls error_current (error_at, lines 61-72) and
\* returns NULL, so decl_count stays; panic_mode is then set and synchronize
\* (lines 90-112) clears it and advances until the previous token is a `;`
\* or the current one is TOK_EOF or one that opens a construct.
ParseDeclaration ==
    LET RECURSIVE Skip(_, _)
        Skip(pos, previous) ==
            IF TokenAt(pos) = "EOF" THEN [pos |-> pos, previous |-> previous]
            ELSE IF previous = "SEMI" THEN [pos |-> pos, previous |-> previous]
            ELSE IF TokenAt(pos) \in {"FN", "ACTOR", "LET", "IF", "WHILE", "FOR",
                                      "RETURN", "SPAWN", "RECEIVE"}
            THEN [pos |-> pos, previous |-> previous]
            ELSE Skip(pos + 1, TokenAt(pos))
        raised == IF ErrorIsSuppressed(parser.panic_mode) THEN parser
                  ELSE [parser EXCEPT !.panic_mode = TRUE, !.had_error = TRUE,
                                      !.error_count = IF @ < MAX_PARSE_ERRORS THEN @ + 1 ELSE @]
        at == Skip(parser.pos, parser.previous)
    IN  /\ parser.pc = "program"
        /\ TokenAt(parser.pos) # "EOF"
        /\ parser.decl_count < 256
        /\ parser' = IF raised.panic_mode
                     THEN [raised EXCEPT !.panic_mode = FALSE, !.pos = at.pos,
                                         !.previous = at.previous]
                     ELSE raised
        /\ UNCHANGED nonParserVars

\* parser_parse_program, lines 1000 and 1012-1020: the loop ends when the
\* current token is TOK_EOF and the program is built.
ParserParseProgram ==
    /\ parser.pc = "program"
    /\ TokenAt(parser.pos) = "EOF"
    /\ parser' = [parser EXCEPT !.pc = "done"]
    /\ UNCHANGED nonParserVars
(***************************************************************************)
(*                           compiler/src/types.c                           *)
(***************************************************************************)

\* The types allocated in a type arena, by address.  kind: the TypeKind;
\* name: the name of an Actor or Struct; sub: the types a compound type
\* points to (Fn: the parameters, then the return type).  A variable's id
\* is its address: type_var (lines 78-87) gives each a fresh id.
\*    1: 'a   2: 'b   3: i32   4: fn('a, 'b) -> i32   5: fn(i32, ['b]) -> i32
\*    6: ['b]   7, 8: two types of actor A   9: actor B
\*    10, 11: two types of struct S   12: struct T   13: the error type
TypeArena ==
    <<[kind |-> "VAR", name |-> "", sub |-> <<>>],
      [kind |-> "VAR", name |-> "", sub |-> <<>>],
      [kind |-> "I32", name |-> "", sub |-> <<>>],
      [kind |-> "FN", name |-> "", sub |-> <<1, 2, 3>>],
      [kind |-> "FN", name |-> "", sub |-> <<3, 6, 3>>],
      [kind |-> "ARRAY", name |-> "", sub |-> <<2>>],
      [kind |-> "ACTOR", name |-> "A", sub |-> <<>>],
      [kind |-> "ACTOR", name |-> "A", sub |-> <<>>],
      [kind |-> "ACTOR", name |-> "B", sub |-> <<>>],
      [kind |-> "STRUCT", name |-> "S", sub |-> <<>>],
      [kind |-> "STRUCT", name |-> "S", sub |-> <<>>],
      [kind |-> "STRUCT", name |-> "T", sub |-> <<>>],
      [kind |-> "ERROR", name |-> "", sub |-> <<>>]>>

\* type_resolve (lines 172-188): follow the instances of bound variables,
\* giving up after MAX_DEPTH = 1000 steps.
TypeResolve(instance, type) ==
    LET RECURSIVE Follow(_, _)
        Follow(t, depth) ==
            IF TypeArena[t].kind = "VAR" /\ instance[t] # NULL
            THEN IF depth + 1 > 1000 THEN instance[t]
                 ELSE Follow(instance[t], depth + 1)
            ELSE t
    IN  IF type = NULL THEN NULL ELSE Follow(type, 0)

\* type_equals (lines 194-233).
RECURSIVE TypeEquals(_, _, _)
TypeEquals(instance, a0, b0) ==
    LET a == TypeResolve(instance, a0)
        b == TypeResolve(instance, b0)
    IN  IF a = NULL \/ b = NULL THEN a = b
        ELSE IF a = b THEN TRUE
        ELSE IF TypeArena[a].kind # TypeArena[b].kind THEN FALSE
        ELSE CASE TypeArena[a].kind = "VAR" -> a = b
               [] TypeArena[a].kind = "FN" ->
                    /\ Len(TypeArena[a].sub) = Len(TypeArena[b].sub)
                    /\ \A i \in 1..Len(TypeArena[a].sub) :
                          TypeEquals(instance, TypeArena[a].sub[i], TypeArena[b].sub[i])
               [] TypeArena[a].kind \in {"ARRAY", "OPTIONAL"} ->
                    TypeEquals(instance, TypeArena[a].sub[1], TypeArena[b].sub[1])
               [] TypeArena[a].kind \in {"ACTOR", "STRUCT"} ->
                    TypeArena[a].name = TypeArena[b].name
               [] OTHER -> TRUE

\* An occurs check that looks at the type itself and not inside it.
OccursAtTop(instance, var, type0) ==
    LET type == TypeResolve(instance, type0)
    IN  type # NULL /\ TypeArena[type].kind = "VAR" /\ type = var

\* occurs_in (lines 239-263).
RECURSIVE OccursIn(_, _, _)
OccursIn(instance, var, type0) ==
    LET type == TypeResolve(instance, type0)
    IN  IF type = NULL THEN FALSE
        ELSE IF TypeArena[type].kind = "VAR" THEN type = var
        ELSE IF TypeArena[type].kind \in {"FN", "ARRAY", "OPTIONAL"}
        THEN \E i \in 1..Len(TypeArena[type].sub) :
                OccursIn(instance, var, TypeArena[type].sub[i])
        ELSE FALSE

\* A fresh arena: no variable is bound, nothing has been called.  instance:
\* the TypeVar.instance of each variable; op, a, b, result: the last call,
\* its arguments and what it returned.
InitTypes ==
    /\ sema = [instance |-> [v \in {1, 2} |-> NULL],
               op |-> "none", a |-> NULL, b |-> NULL, result |-> FALSE]
    /\ MbParked /\ ArcParked /\ BarParked /\ MtxParked /\ SchedParked
    /\ ChanParked /\ OvfParked /\ lexer = <<>> /\ parser = <<>>
    /\ irgen = <<>> /\ wait_queue = <<>> /\ waiting_procs = 0

\* type_unify (lines 269-318) called on two types of the arena.  Unify is the
\* function: whether it succeeds, and the instances it leaves behind.
TypeUnify(a0, b0) ==
    LET RECURSIVE Unify(_, _, _), UnifyEach(_, _, _, _)
        Unify(instance, ta, tb) ==
            LET a == TypeResolve(instance, ta)
                b == TypeResolve(instance, tb)
                succeed == [ok |-> TRUE, instance |-> instance]
                fail == [ok |-> FALSE, instance |-> instance]
            IN  IF a = NULL \/ b = NULL THEN fail
                ELSE IF a = b THEN succeed
                ELSE IF TypeArena[a].kind = "ERROR" \/ TypeArena[b].kind = "ERROR"
                THEN succeed
                ELSE IF TypeArena[a].kind = "VAR"
                THEN IF OccursIn(instance, a, b) THEN fail
                     ELSE [ok |-> TRUE, instance |-> [instance EXCEPT ![a] = b]]
                ELSE IF TypeArena[b].kind = "VAR"
                THEN IF OccursIn(instance, b, a) THEN fail
                     ELSE [ok |-> TRUE, instance |-> [instance EXCEPT ![b] = a]]
                ELSE IF TypeArena[a].kind # TypeArena[b].kind THEN fail
                ELSE CASE TypeArena[a].kind = "FN" ->
                            IF Len(TypeArena[a].sub) # Len(TypeArena[b].sub) THEN fail
                            ELSE UnifyEach(instance, a, b, 1)
                       [] TypeArena[a].kind \in {"ARRAY", "OPTIONAL"} ->
                            Unify(instance, TypeArena[a].sub[1], TypeArena[b].sub[1])
                       [] TypeArena[a].kind = "ACTOR" ->
                            [ok |-> TypeEquals(instance, a, b), instance |-> instance]
                       [] OTHER -> succeed
        UnifyEach(instance, a, b, i) ==
            IF i > Len(TypeArena[a].sub) THEN [ok |-> TRUE, instance |-> instance]
            ELSE LET r == Unify(instance, TypeArena[a].sub[i], TypeArena[b].sub[i])
                 IN  IF r.ok THEN UnifyEach(r.instance, a, b, i + 1) ELSE r
        r == Unify(sema.instance, a0, b0)
    IN  /\ sema.op \in {"none", "unify", "equals"}
        /\ sema' = [instance |-> r.instance, op |-> "unify",
                    a |-> a0, b |-> b0, result |-> r.ok]
        /\ UNCHANGED nonSemaVars

\* type_equals called on two types of the arena.
TypeEqualsCall(a0, b0) ==
    /\ sema.op \in {"none", "unify", "equals"}
    /\ sema' = [sema EXCEPT !.op = "equals", !.a = a0, !.b = b0,
                            !.result = TypeEquals(sema.instance, a0, b0)]
    /\ UNCHANGED nonSemaVars

(***************************************************************************)
(*                  compiler/src/sema.c, compiler/src/symbol.c              *)
(***************************************************************************)

\* Bound of the program model: the statements of a function body, counting
\* the end of each block as one.
MaxStmts == 5

\* The break/continue test of sema_check_stmt that accepts them anywhere.
BreakOutsideLoopNever(in_loop) == FALSE

\* sema_check_stmt, line 624: the test that makes break/continue an error.
BreakOutsideLoop(in_loop) == ~in_loop

\* symbol_define (symbol.c lines 72-101) of `name` by the definition at
\* `site`, on the scope stack `scopes` (a scope is the set of its symbols,
\* the last scope is table->current): sym is FALSE where the C returns NULL.
SymbolDefine(scopes, name, site) ==
    IF Len(scopes) = 0 THEN [sym |-> FALSE, scopes |-> scopes]
    ELSE IF \E s \in scopes[Len(scopes)] : s.name = name
    THEN [sym |-> FALSE, scopes |-> scopes]
    ELSE [sym |-> TRUE,
          scopes |-> [scopes EXCEPT ![Len(scopes)] = @ \cup {[name |-> name, site |-> site]}]]

\* sema_init (sema.c lines 23-31, symbol.c lines 26-35) for every program of
\* one function, and of two functions that have the same body of at most
\* two statements.  A body is a sequence of
\* statements, a block being spread out as its opening statement, its
\* statements and "end".  decls, body: the program; pc, d, cursor: where
\* sema_analyze is (declaration d, statement cursor); scopes: the scope
\* stack; frames: the calls of sema_check_stmt and check_block that have not
\* returned, each with its was_in_loop; seen: in_loop when each statement of
\* the body was last checked; found: the definition the last identifier
\* resolved to; defined: what the last symbol_define of a `let` returned.
InitSema ==
    LET Stmts == {[kind |-> "let", name |-> "x"], [kind |-> "ident", name |-> "x"],
                  [kind |-> "break", name |-> ""], [kind |-> "continue", name |-> ""],
                  [kind |-> "while", name |-> ""], [kind |-> "for", name |-> "x"],
                  [kind |-> "loop", name |-> ""], [kind |-> "if", name |-> ""],
                  [kind |-> "block", name |-> ""], [kind |-> "end", name |-> ""]}
        Opens(st) == st.kind \in {"while", "for", "loop", "if", "block"}
        RECURSIVE Depth(_, _)
        Depth(body, n) ==
            IF n = 0 THEN 0
            ELSE LET below == Depth(body, n - 1)
                 IN  IF below < 0 THEN below
                     ELSE IF Opens(body[n]) THEN below + 1
                     ELSE IF body[n].kind = "end" THEN below - 1
                     ELSE below
    IN  /\ \E decls \in {<<"f">>, <<"f", "g">>, <<"f", "f">>} :
           \E len \in 0..MaxStmts : \E body \in [1..len -> Stmts] :
              /\ Depth(body, len) = 0
              /\ Len(decls) = 1 \/ len <= 2
              /\ sema = [decls |-> decls, body |-> body, pc |-> "analyze", d |-> 0,
                         cursor |-> 0, scopes |-> <<{}>>, frames |-> <<>>,
                         in_loop |-> FALSE, seen |-> [i \in 1..len |-> FALSE],
                         errors |-> <<>>, had_error |-> FALSE,
                         found |-> <<>>, defined |-> TRUE]
        /\ MbParked /\ ArcParked /\ BarParked /\ MtxParked /\ SchedParked
    /\ ChanParked /\ OvfParked /\ lexer = <<>> /\ parser = <<>>
    /\ irgen = <<>> /\ wait_queue = <<>> /\ waiting_procs = 0

\* sema_analyze, lines 843-889: the first pass defines every top-level name
\* in the global scope and goes on when symbol_define returns NULL; then
\* `print` is defined.
SemaAnalyze ==
    LET RECURSIVE Forward(_, _)
        Forward(scopes, i) ==
            IF i > Len(sema.decls) THEN scopes
            ELSE Forward(SymbolDefine(scopes, sema.decls[i], <<i, 0>>).scopes, i + 1)
    IN  /\ sema.pc = "analyze"
        /\ sema' = [sema EXCEPT
                      !.scopes = SymbolDefine(Forward(sema.scopes, 1), "print", <<0, 0>>).scopes,
                      !.pc = "decl", !.d = 1]
        /\ UNCHANGED nonSemaVars

\* check_function, lines 643-690, for declaration d of the second pass
\* (sema_analyze, lines 892-896): up to the first statement of the body, and
\* from the end of the body on.  The symbol_define of line 688 finds the
\* name of the first pass and returns NULL, which is ignored.
CheckFunction ==
    /\ \/ /\ sema.pc = "decl"
          /\ sema' = [sema EXCEPT !.scopes = Append(@, {}), !.pc = "body", !.cursor = 1]
       \/ /\ sema.pc = "body" /\ sema.cursor > Len(sema.body)
          /\ sema' = [sema EXCEPT
                        !.scopes = SymbolDefine(SubSeq(@, 1, Len(@) - 1),
                                                sema.decls[sema.d], <<sema.d, 0>>).scopes,
                        !.d = @ + 1,
                        !.pc = IF sema.d < Len(sema.decls) THEN "decl" ELSE "done"]
    /\ UNCHANGED nonSemaVars

\* sema_check_stmt (lines 500-637) and check_block (lines 491-498) at the
\* statement under the cursor; "end" is where check_block and the loop
\* statement that called it return.  sema_error is lines 38-45, infer_ident
\* lines 68-73 and symbol_lookup symbol.c lines 118-127.
SemaCheckStmt ==
    LET stmt == sema.body[sema.cursor]
        site == <<sema.d, sema.cursor>>
        top == Len(sema.scopes)
        SemaError(ctx, message) ==
            [ctx EXCEPT !.had_error = TRUE,
                        !.errors = IF Len(@) < 64
                                   THEN Append(@, [message |-> message, site |-> site])
                                   ELSE @]
        RECURSIVE SymbolLookup(_)
        SymbolLookup(depth) ==
            IF depth = 0 THEN <<>>
            ELSE IF \E s \in sema.scopes[depth] : s.name = stmt.name
            THEN (CHOOSE s \in sema.scopes[depth] : s.name = stmt.name).site
            ELSE SymbolLookup(depth - 1)
        checked == [sema EXCEPT !.cursor = @ + 1, !.seen[sema.cursor] = sema.in_loop]
        define == SymbolDefine(sema.scopes, stmt.name, site)
    IN  /\ sema.pc = "body" /\ sema.cursor <= Len(sema.body)
        /\ sema' =
             CASE stmt.kind = "let" ->
                    IF define.sym
                    THEN [checked EXCEPT !.scopes = define.scopes, !.defined = TRUE]
                    ELSE SemaError([checked EXCEPT !.defined = FALSE],
                                   "duplicate variable definition")
               [] stmt.kind = "ident" ->
                    IF SymbolLookup(top) = <<>>
                    THEN SemaError([checked EXCEPT !.found = <<>>], "undefined identifier")
                    ELSE [checked EXCEPT !.found = SymbolLookup(top)]
               [] stmt.kind \in {"break", "continue"} ->
                    IF BreakOutsideLoop(sema.in_loop)
                    THEN SemaError(checked, "break/continue outside loop")
                    ELSE checked
               [] stmt.kind \in {"if", "block"} ->
                    [checked EXCEPT
                       !.scopes = Append(@, {}),
                       !.frames = Append(@, [kind |-> stmt.kind, was_in_loop |-> sema.in_loop])]
               [] stmt.kind \in {"while", "loop"} ->
                    [checked EXCEPT
                       !.scopes = Append(@, {}),
                       !.frames = Append(@, [kind |-> stmt.kind, was_in_loop |-> sema.in_loop]),
                       !.in_loop = TRUE]
               [] stmt.kind = "for" ->
                    [checked EXCEPT
                       !.scopes = Append(SymbolDefine(Append(@, {}), stmt.name, site).scopes, {}),
                       !.frames = Append(@, [kind |-> stmt.kind, was_in_loop |-> sema.in_loop]),
                       !.in_loop = TRUE]
               [] stmt.kind = "end" ->
                    LET frame == sema.frames[Len(sema.frames)]
                    IN  [checked EXCEPT
                           !.scopes = SubSeq(@, 1, IF frame.kind = "for" THEN top - 2 ELSE top - 1),
                           !.frames = SubSeq(@, 1, Len(@) - 1),
                           !.in_loop = IF frame.kind \in {"while", "for", "loop"}
                                       THEN frame.was_in_loop ELSE @]
        /\ UNCHANGED nonSemaVars

(***************************************************************************)
(*          compiler/src/sema.c  (expressions: calls and sends)             *)
(***************************************************************************)

\* Bound of the expression model: the expression statements of `main`.
MaxExprStmts == 2

\* sema_init for every program `fn f(p1 .. pn) {}  fn main(p) { stmts }`
\* with n <= 2, the statements being calls `f(1, .., 1)` with up to two
\* arguments and sends `target ! 1` whose target is an integer, a boolean or
\* a string literal, `spawn f`, the parameter p, or an undefined name.
\* params, stmts: the program; f_type: the resolved type of the symbol `f`
\* of the global scope; errors: the statement and message of every
\* sema_error; result: what sema_analyze returned.
InitInfer ==
    LET Stmts == [kind : {"call"}, target : {"f"}, argc : 0..2]
                   \cup [kind : {"send"}, argc : {0},
                         target : {"int", "bool", "string", "spawn", "param", "undefined"}]
    IN  /\ \E params \in 0..2 : \E len \in 0..MaxExprStmts : \E stmts \in [1..len -> Stmts] :
              sema = [params |-> params, stmts |-> stmts, pc |-> "analyze",
                      f_type |-> [kind |-> "NONE", param_count |-> 0],
                      errors |-> <<>>, had_error |-> FALSE, result |-> FALSE]
        /\ MbParked /\ ArcParked /\ BarParked /\ MtxParked /\ SchedParked
    /\ ChanParked /\ OvfParked /\ lexer = <<>> /\ parser = <<>>
    /\ irgen = <<>> /\ wait_queue = <<>> /\ waiting_procs = 0

\* sema_analyze (lines 843-897) on the program.  The first pass defines `f`
\* and `main` with a fresh type variable each; check_function (lines
\* 643-690) builds the Fn type of `f` and gives it to symbol_define, and the
\* symbol keeps the type it has when symbol_define returns NULL.  Then the
\* statements of `main` are checked in turn: sema_infer_expr (lines
\* 329-398), infer_ident (68-73), infer_spawn (314-327), infer_send
\* (305-312) and infer_call (226-303; type_unify binds an unresolved callee
\* to a function type of the call's shape).
SemaInfer ==
    LET pass1 == SymbolDefine(SymbolDefine(<<{}>>, "f", <<1, 0>>).scopes, "main", <<2, 0>>)
        publish == SymbolDefine(pass1.scopes, "f", <<1, 1>>)
        declared == IF publish.sym THEN [kind |-> "FN", param_count |-> sema.params]
                    ELSE [kind |-> "VAR", param_count |-> 0]
        TargetKind(target) ==
            CASE target = "int" -> "I32"
              [] target = "bool" -> "BOOL"
              [] target = "string" -> "STRING"
              [] target = "spawn" -> "PROCESS"
              [] target = "param" -> "VAR"
              [] target = "undefined" -> "ERROR"
        SemaError(ctx, i, message) ==
            [ctx EXCEPT !.had_error = TRUE,
                        !.errors = IF Len(@) < 64
                                   THEN Append(@, [stmt |-> i, message |-> message])
                                   ELSE @]
        InferSend(ctx, i) ==
            IF TargetKind(sema.stmts[i].target) = "ERROR"
            THEN SemaError(ctx, i, "undefined identifier")
            ELSE ctx
        InferCall(ctx, i) ==
            IF ctx.f_type.kind = "VAR"
            THEN [ctx EXCEPT !.f_type = [kind |-> "FN", param_count |-> sema.stmts[i].argc]]
            ELSE IF sema.stmts[i].argc # ctx.f_type.param_count
            THEN SemaError(ctx, i, "wrong number of arguments")
            ELSE ctx
        RECURSIVE Check(_, _)
        Check(ctx, i) ==
            IF i > Len(sema.stmts) THEN ctx
            ELSE Check(IF sema.stmts[i].kind = "send" THEN InferSend(ctx, i)
                       ELSE InferCall(ctx, i), i + 1)
        done == Check([sema EXCEPT !.f_type = declared], 1)
    IN  /\ sema.pc = "analyze"
        /\ sema' = [done EXCEPT !.pc = "done", !.result = ~done.had_error]
        /\ UNCHANGED nonSemaVars

(***************************************************************************)
(*                        compiler/src/irgen.c                              *)
(***************************************************************************)

\* Bounds of the IR generation model: the statements of the block of an if,
\* a while or a loop, and the arms of a receive.
MaxBody == 2
MaxArms == 2

\* sema_check_stmt and check_block (sema.c): the statements of one scope
\* are accepted.  visible: the names symbol_lookup finds; current: the names
\* of the current scope (a second `let` of one of them is "duplicate
\* variable definition"); a block opens a scope, a receive arm opens one
\* that holds its pattern; break and continue need in_loop.
RECURSIVE SemaAccepts(_, _, _, _)
SemaAccepts(stmts, visible, current, in_loop) ==
    IF stmts = <<>> THEN TRUE
    ELSE LET stmt == Head(stmts)
             rest == Tail(stmts)
         IN  CASE stmt.kind = "let" ->
                     /\ stmt.name \notin current
                     /\ SemaAccepts(rest, visible \cup {stmt.name},
                                    current \cup {stmt.name}, in_loop)
               [] stmt.kind = "use" ->
                     stmt.name \in visible /\ SemaAccepts(rest, visible, current, in_loop)
               [] stmt.kind \in {"break", "continue"} ->
                     in_loop /\ SemaAccepts(rest, visible, current, in_loop)
               [] stmt.kind = "if" ->
                     /\ SemaAccepts(stmt.body, visible, {}, in_loop)
                     /\ \A i \in 1..Len(stmt.orelse) :
                           SemaAccepts(<<stmt.orelse[i]>>, visible, current, in_loop)
                     /\ SemaAccepts(rest, visible, current, in_loop)
               [] stmt.kind = "block" ->
                     /\ SemaAccepts(stmt.body, visible, {}, in_loop)
                     /\ SemaAccepts(rest, visible, current, in_loop)
               [] stmt.kind \in {"while", "loop"} ->
                     /\ SemaAccepts(stmt.body, visible, {}, TRUE)
                     /\ SemaAccepts(rest, visible, current, in_loop)
               [] stmt.kind = "receive" ->
                     /\ \A i \in 1..Len(stmt.arms) :
                           SemaAccepts(stmt.arms[i].body,
                                       visible \cup {stmt.arms[i].pattern},
                                       {stmt.arms[i].pattern}, in_loop)
                     /\ SemaAccepts(rest, visible, current, in_loop)
               [] OTHER -> SemaAccepts(rest, visible, current, in_loop)

\* ir_generate (lines 937-950) and the start of gen_func (lines 728-752) for
\* every function `fn f() [-> i32] { body }` without parameters that
\* sema accepts, where body is one statement, with or without `let x = 1;`
\* before it and with or without one simple statement (`let x = 1;`, `x;`,
\* `return [1];`) after it.  The one statement is a simple statement, or
\* an if with or without else, a while, a loop or a receive; their blocks
\* hold simple statements, break and continue, those of an else and of a
\* receive arm at most one.  Conditions are the literal `true`, the
\* patterns of the arms are the integers 42 and 99, and every return
\* carries a value exactly when the function has a return type.  gen_func
\* has created the entry block (id 1) and set local_count to 0.
InitIrgen ==
    /\ \E returns \in BOOLEAN :
         LET Stmt(kind, body, orelse, arms) ==
                 [kind |-> kind, name |-> "x", value |-> returns, body |-> body,
                  orelse |-> orelse, arms |-> arms]
             Simple == {Stmt(k, <<>>, <<>>, <<>>) : k \in {"let", "use", "return"}}
             Leaves == Simple \cup {Stmt(k, <<>>, <<>>, <<>>) : k \in {"break", "continue"}}
             Blocks(n) == UNION {[1..k -> Leaves] : k \in 0..n}
             Short == {<<>>} \cup {<<l>> : l \in Leaves}
             Arms == [pattern : {"42", "99"}, body : Short]
             Compound ==
                 {Stmt("if", b, <<>>, <<>>) : b \in Blocks(MaxBody)}
                 \cup {Stmt("if", b, <<Stmt("block", e, <<>>, <<>>)>>, <<>>) :
                          b \in Blocks(MaxBody), e \in Short}
                 \cup {Stmt(k, b, <<>>, <<>>) : k \in {"while", "loop"}, b \in Blocks(MaxBody)}
                 \cup {Stmt("receive", <<>>, <<>>, a) :
                          a \in UNION {[1..k -> Arms] : k \in 0..MaxArms}}
         IN  \E before \in {<<>>, <<Stmt("let", <<>>, <<>>, <<>>)>>} :
             \E after \in {<<>>} \cup {<<l>> : l \in Simple} :
             \E stmt \in Simple \cup Compound :
                /\ SemaAccepts(before \o <<stmt>> \o after, {}, {}, FALSE)
                /\ irgen = [func |-> [returns |-> returns,
                                      body |-> before \o <<stmt>> \o after],
                            pc |-> "body", cursor |-> 1,
                            blocks |-> <<[label |-> <<"entry", 0>>, instrs |-> <<>>]>>,
                            cur_block |-> 1, break_bb |-> 0, continue_bb |-> 0,
                            locals |-> <<>>, vreg_counter |-> 0]
    /\ MbParked /\ ArcParked /\ BarParked /\ MtxParked /\ SchedParked
    /\ ChanParked /\ OvfParked /\ lexer = <<>> /\ parser = <<>>
    /\ sema = <<>> /\ wait_queue = <<>> /\ waiting_procs = 0

\* lookup_local (lines 66-75): the value of the first of the local_count
\* entries that has the name, VAL_UNDEF when none has.
LookupLocal(locals, name) ==
    LET found == {i \in 1..Len(locals) : locals[i].name = name}
    IN  IF found = {} THEN [kind |-> "undef", v |-> 0]
        ELSE locals[CHOOSE i \in found : \A j \in found : i <= j].val

\* add_local (lines 77-84): one more entry while fewer than 256 are in use.
AddLocal(locals, name, val) ==
    IF Len(locals) < 256 THEN Append(locals, [name |-> name, val |-> val]) ELSE locals

\* block_append (ir.c, lines 93-102) on the block blk of the function: the
\* instruction becomes the tail, whatever the tail was.
BlockAppend(ctx, blk, inst) ==
    [ctx EXCEPT !.blocks[blk].instrs = Append(@, inst)]

\* A comparison chain in which a failed comparison always goes to the
\* no-match block.
NextCheckNoMatch(i, arm_count, fresh, nomatch_bb) == nomatch_bb

\* gen_stmt, lines 657-658: where the comparison of arm i goes when the tag
\* differs: a fresh check block while arms remain, the no-match block after
\* the last arm.
NextCheck(i, arm_count, fresh, nomatch_bb) ==
    IF i + 1 <= arm_count THEN fresh ELSE nomatch_bb

\* gen_stmt (lines 429-716) and gen_block (lines 718-722) on the context
\* ctx (the fields blocks, cur_block, break_bb, continue_bb, locals and
\* vreg_counter of irgen).  An instruction is its opcode, result register
\* (-1: none), operands, target blocks and callee; ir_block_create (ir.c,
\* lines 75-91) appends an empty block to the function.
RECURSIVE GenStmt(_, _), GenBlock(_, _)
GenStmt(ctx, stmt) ==
    LET Undef == [kind |-> "undef", v |-> 0]
        Const(n) == [kind |-> "const", v |-> n]
        Var(id) == [kind |-> "var", v |-> id]
        Instr(op, result, op1, op2, target1, target2, callee) ==
            [op |-> op, result |-> result, op1 |-> op1, op2 |-> op2,
             target1 |-> target1, target2 |-> target2, callee |-> callee]
        Create(c, label) == [c EXCEPT !.blocks = Append(@, [label |-> label, instrs |-> <<>>])]
        \* a builder that makes a result takes the next register
        Build(c, op, op1, op2, callee) ==
            [BlockAppend(c, c.cur_block,
                         Instr(op, c.vreg_counter, op1, op2, 0, 0, callee))
                EXCEPT !.vreg_counter = @ + 1]
        Store(c, val, ptr) ==
            BlockAppend(c, c.cur_block, Instr("store", -1, val, ptr, 0, 0, ""))
        Jmp(c, dest) == BlockAppend(c, c.cur_block, Instr("jmp", -1, Undef, Undef, dest, 0, ""))
        Br(c, cond, then_bb, else_bb) ==
            BlockAppend(c, c.cur_block, Instr("br", -1, cond, Undef, then_bb, else_bb, ""))
        At(c, blk) == [c EXCEPT !.cur_block = blk]
        \* the test of lines 545, 552, 588 and 688: the tail is a terminator
        Terminated(c) ==
            LET instrs == c.blocks[c.cur_block].instrs
            IN  instrs # <<>> /\ instrs[Len(instrs)].op \in {"ret", "br", "jmp"}
        JmpUnlessTerminated(c, dest) == IF Terminated(c) THEN c ELSE Jmp(c, dest)
        \* alloca, store, add_local (lines 450-452 and 675-680)
        Bind(c, name, val) ==
            LET slot == Var(c.vreg_counter)
                c1 == Store(Build(c, "alloca", Undef, Undef, ""), val, slot)
            IN  [c1 EXCEPT !.locals = AddLocal(@, name, slot)]
    IN  CASE stmt.kind = "let" -> Bind(ctx, stmt.name, Const(1))
          [] stmt.kind = "use" ->
                \* AST_EXPR_STMT of an identifier: gen_identifier (lines 176-185)
                LET ptr == LookupLocal(ctx.locals, stmt.name)
                IN  IF ptr.kind # "undef" THEN Build(ctx, "load", ptr, Undef, "") ELSE ctx
          [] stmt.kind = "return" ->
                BlockAppend(ctx, ctx.cur_block,
                            Instr("ret", -1, IF stmt.value THEN Const(1) ELSE Undef,
                                  Undef, 0, 0, ""))
          [] stmt.kind = "loop" ->
                LET body_bb == Len(ctx.blocks) + 1
                    end_bb == Len(ctx.blocks) + 2
                    c1 == Jmp(Create(Create(ctx, <<"loop.body", 0>>), <<"loop.end", 0>>),
                              body_bb)
                    c2 == GenBlock([c1 EXCEPT !.break_bb = end_bb, !.continue_bb = body_bb,
                                              !.cur_block = body_bb], stmt.body)
                IN  [Jmp(c2, body_bb) EXCEPT !.break_bb = ctx.break_bb,
                                             !.continue_bb = ctx.continue_bb,
                                             !.cur_block = end_bb]
          [] stmt.kind = "if" ->
                LET then_bb == Len(ctx.blocks) + 1
                    else_bb == Len(ctx.blocks) + 2
                    merge_bb == Len(ctx.blocks) + 3
                    c1 == Create(Create(Create(ctx, <<"then", 0>>), <<"else", 0>>),
                                 <<"merge", 0>>)
                    c2 == Br(c1, Const(1), then_bb,
                             IF stmt.orelse # <<>> THEN else_bb ELSE merge_bb)
                    c3 == JmpUnlessTerminated(GenBlock(At(c2, then_bb), stmt.body), merge_bb)
                    c4 == IF stmt.orelse # <<>>
                          THEN JmpUnlessTerminated(GenStmt(At(c3, else_bb), stmt.orelse[1]),
                                                   merge_bb)
                          ELSE c3
                IN  At(c4, merge_bb)
          [] stmt.kind = "while" ->
                LET cond_bb == Len(ctx.blocks) + 1
                    body_bb == Len(ctx.blocks) + 2
                    exit_bb == Len(ctx.blocks) + 3
                    c1 == Create(Create(Create(ctx, <<"while.cond", 0>>), <<"while.body", 0>>),
                                 <<"while.exit", 0>>)
                    c2 == Jmp([c1 EXCEPT !.break_bb = exit_bb, !.continue_bb = cond_bb],
                              cond_bb)
                    c3 == Br(At(c2, cond_bb), Const(1), body_bb, exit_bb)
                    c4 == JmpUnlessTerminated(GenBlock(At(c3, body_bb), stmt.body), cond_bb)
                IN  [c4 EXCEPT !.break_bb = ctx.break_bb, !.continue_bb = ctx.continue_bb,
                               !.cur_block = exit_bb]
          [] stmt.kind = "receive" ->
                LET msg_val == Var(ctx.vreg_counter)
                    field == Var(ctx.vreg_counter + 1)
                    tag_val == Var(ctx.vreg_counter + 2)
                    c1 == Build(Build(Build(ctx, "call", Const(0), Undef, "arnm_receive"),
                                      "field_ptr", msg_val, Const(0), ""),
                                "load", field, Undef, "")
                    arm_count == Len(stmt.arms)
                    merge_bb == Len(ctx.blocks) + 1
                    nomatch_bb == Len(ctx.blocks) + 2
                    arm_block(i) == Len(ctx.blocks) + 2 + i
                    RECURSIVE CreateArms(_, _)
                    CreateArms(c, i) ==
                        IF i > arm_count THEN c
                        ELSE CreateArms(Create(c, <<"recv.arm", i>>), i + 1)
                    \* the expected tag of a pattern that starts with a digit: atoi
                    expected(i) == IF stmt.arms[i].pattern = "42" THEN 42 ELSE 99
                    RECURSIVE Compare(_, _)
                    Compare(c, i) ==
                        IF i > arm_count THEN c
                        ELSE LET cmp == Var(c.vreg_counter)
                                 cc == Build(c, "eq", tag_val, Const(expected(i)), "")
                                 next_check == NextCheck(i, arm_count, Len(cc.blocks) + 1,
                                                         nomatch_bb)
                                 cn == IF i + 1 <= arm_count
                                       THEN Create(cc, <<"recv.check", 0>>) ELSE cc
                             IN  Compare(At(Br(cn, cmp, arm_block(i), next_check),
                                            next_check), i + 1)
                    RECURSIVE Bodies(_, _)
                    Bodies(c, i) ==
                        IF i > arm_count THEN c
                        ELSE Bodies(JmpUnlessTerminated(
                                        GenBlock(Bind(At(c, arm_block(i)),
                                                      stmt.arms[i].pattern, tag_val),
                                                 stmt.arms[i].body),
                                        merge_bb), i + 1)
                    c2 == Compare(CreateArms(Create(Create(c1, <<"recv.merge", 0>>),
                                                    <<"recv.nomatch", 0>>), 1), 1)
                    c3 == Jmp(BlockAppend(At(c2, nomatch_bb), nomatch_bb,
                                          Instr("call", -1, Undef, Undef, 0, 0,
                                                "arnm_panic_nomatch")),
                              merge_bb)
                IN  IF arm_count = 0 THEN c1 ELSE At(Bodies(c3, 1), merge_bb)
          [] stmt.kind = "break" ->
                IF ctx.break_bb # 0 THEN Jmp(ctx, ctx.break_bb) ELSE ctx
          [] stmt.kind = "continue" ->
                IF ctx.continue_bb # 0 THEN Jmp(ctx, ctx.continue_bb) ELSE ctx
          [] OTHER -> ctx

GenBlock(ctx, stmts) ==
    IF stmts = <<>> THEN ctx ELSE GenBlock(GenStmt(ctx, Head(stmts)), Tail(stmts))

\* gen_func, lines 771-773: gen_stmt on the next statement of the body.
GenFuncBody ==
    /\ irgen.pc = "body"
    /\ irgen.cursor <= Len(irgen.func.body)
    /\ irgen' = [GenStmt(irgen, irgen.func.body[irgen.cursor]) EXCEPT !.cursor = @ + 1]
    /\ UNCHANGED nonIrgenVars

\* gen_func, lines 775-786, after the body: a function without return type
\* whose current block does not end in a Ret gets a RetVoid; free_locals.
GenFuncEnd ==
    /\ irgen.pc = "body"
    /\ irgen.cursor > Len(irgen.func.body)
    /\ LET instrs == irgen.blocks[irgen.cur_block].instrs
           ret == [op |-> "ret", result |-> -1, op1 |-> [kind |-> "undef", v |-> 0],
                   op2 |-> [kind |-> "undef", v |-> 0], target1 |-> 0, target2 |-> 0,
                   callee |-> ""]
           ctx == IF ~irgen.func.returns /\ (instrs = <<>> \/ instrs[Len(instrs)].op # "ret")
                  THEN BlockAppend(irgen, irgen.cur_block, ret)
                  ELSE irgen
       IN  irgen' = [ctx EXCEPT !.pc = "done", !.locals = <<>>]
    /\ UNCHANGED nonIrgenVars

\* What running the lowered code of a receive does (the opcodes of ir.h):
\* the instructions are executed from the call of arnm_receive on, which
\* returns a message of the given tag, until the merge block of the receive
\* is entered, the function returns, arnm_panic_nomatch aborts (runtime.c,
\* lines 99-102) or a block ends without terminator.  The result is the
\* arms whose blocks were entered, in order, whether the panic was called,
\* and how the run ended.  Registers hold integers; the message pointer
\* is -1, and a load through it gives the tag (the field at offset 0).
RunReceive(blocks, nregs, tag) ==
    LET Val(env, op) == IF op.kind = "var" THEN env[op.v] ELSE op.v
        start == CHOOSE at \in {<<b, i>> : b \in 1..Len(blocks), i \in 1..8} :
                    /\ at[2] <= Len(blocks[at[1]].instrs)
                    /\ blocks[at[1]].instrs[at[2]].callee = "arnm_receive"
        RECURSIVE Run(_, _, _, _, _)
        Run(b, i, env, arms, fuel) ==
            IF fuel = 0 THEN [arms |-> arms, panic |-> FALSE, end |-> "running"]
            ELSE IF i > Len(blocks[b].instrs)
            THEN [arms |-> arms, panic |-> FALSE, end |-> "no terminator"]
            ELSE LET inst == blocks[b].instrs[i]
                     Enter(dest) ==
                         IF blocks[dest].label[1] = "recv.merge"
                         THEN [arms |-> arms, panic |-> FALSE, end |-> "merge"]
                         ELSE Run(dest, 1, env,
                                  IF blocks[dest].label[1] = "recv.arm"
                                  THEN Append(arms, blocks[dest].label[2]) ELSE arms,
                                  fuel - 1)
                     Set(v) == Run(b, i + 1, [env EXCEPT ![inst.result] = v], arms, fuel - 1)
                 IN  CASE inst.op = "call" /\ inst.callee = "arnm_receive" -> Set(-1)
                       [] inst.op = "call" /\ inst.callee = "arnm_panic_nomatch" ->
                             [arms |-> arms, panic |-> TRUE, end |-> "abort"]
                       [] inst.op = "field_ptr" -> Set(Val(env, inst.op1))
                       [] inst.op = "load" ->
                             Set(IF Val(env, inst.op1) = -1 THEN tag ELSE 0)
                       [] inst.op = "alloca" -> Set(-2)
                       [] inst.op = "eq" ->
                             Set(IF Val(env, inst.op1) = Val(env, inst.op2) THEN 1 ELSE 0)
                       [] inst.op = "br" ->
                             Enter(IF Val(env, inst.op1) # 0 THEN inst.target1
                                   ELSE inst.target2)
                       [] inst.op = "jmp" -> Enter(inst.target1)
                       [] inst.op = "ret" -> [arms |-> arms, panic |-> FALSE, end |-> "ret"]
                       [] OTHER -> Run(b, i + 1, env, arms, fuel - 1)
    IN  Run(start[1], start[2], [r \in 0..nregs |-> 0], <<>>, 32)

(***************************************************************************)
(*                            Specifications                                *)
(***************************************************************************)

\* Producers sending to one mailbox while its owner calls try_receive
\* (tests/test_stress_contention.c).
InitMailbox ==
    /\ MbInit
    /\ ArcParked /\ BarParked /\ MtxParked /\ SchedParked /\ ChanParked
    /\ OvfParked /\ lexer = <<>> /\ parser = <<>> /\ sema = <<>>
    /\ irgen = <<>> /\ wait_queue = <<>> /\ waiting_procs = 0
SpecMailbox == InitMailbox /\ [][MbNext]_vars

\* Workers retaining and releasing one ARC object.
InitArc ==
    /\ ArcInit
    /\ MbParked /\ BarParked /\ MtxParked /\ SchedParked /\ ChanParked
    /\ OvfParked /\ lexer = <<>> /\ parser = <<>> /\ sema = <<>>
    /\ irgen = <<>> /\ wait_queue = <<>> /\ waiting_procs = 0
SpecArc == InitArc /\ [][ArcNext]_vars

\* BarrierThreshold processes meeting MaxRounds times at one barrier.
InitBarrier ==
    /\ BarInit
    /\ MbParked /\ ArcParked /\ MtxParked /\ SchedParked /\ ChanParked
    /\ OvfParked /\ lexer = <<>> /\ parser = <<>> /\ sema = <<>>
    /\ irgen = <<>> /\ wait_queue = <<>> /\ waiting_procs = 0
SpecBarrier == InitBarrier /\ [][BarNext]_vars

\* Processes locking and unlocking one mutex.
InitMutex ==
    /\ MtxInit
    /\ MbParked /\ ArcParked /\ BarParked /\ SchedParked /\ ChanParked
    /\ OvfParked /\ lexer = <<>> /\ parser = <<>> /\ sema = <<>>
    /\ irgen = <<>> /\ wait_queue = <<>> /\ waiting_procs = 0
SpecMutex == InitMutex /\ [][MtxNext]_vars

\* One process spawned by the main thread (crt0.c), which spawns, yields and
\* exits, as do the processes it spawns, on SchedWorkers workers.  The worker
\* threads are OS threads: each keeps taking steps while it has one to take.
InitSched ==
    /\ SchedInitWith(SchedWorkers, 1)
    /\ MbParked /\ ArcParked /\ BarParked /\ MtxParked /\ ChanParked
    /\ OvfParked /\ lexer = <<>> /\ parser = <<>> /\ sema = <<>>
    /\ irgen = <<>> /\ wait_queue = <<>> /\ waiting_procs = 0
SpecSched ==
    /\ InitSched /\ [][SchedNextStep]_vars
    /\ \A w \in 0..(SchedWorkers - 1) : WF_vars(WorkerStep(w))

\* Two processes spawned by the main thread, which send to each other,
\* receive and exit, on MsgWorkers workers; the same fairness.
InitMsg ==
    /\ SchedInitWith(MsgWorkers, 2)
    /\ MbParked /\ ArcParked /\ BarParked /\ MtxParked /\ ChanParked
    /\ OvfParked /\ lexer = <<>> /\ parser = <<>> /\ sema = <<>>
    /\ irgen = <<>> /\ wait_queue = <<>> /\ waiting_procs = 0
SpecMsg ==
    /\ InitMsg /\ [][MsgNextStep]_vars
    /\ \A w \in 0..(MsgWorkers - 1) : WF_vars(MsgWorkerStep(w))


\* Processes sending to, receiving from and closing one channel.  Every
\* process keeps being scheduled: it keeps taking steps while it has one.
InitChannel ==
    /\ ChanInit
    /\ MbParked /\ ArcParked /\ BarParked /\ MtxParked /\ SchedParked
    /\ OvfParked /\ lexer = <<>> /\ parser = <<>> /\ sema = <<>>
    /\ irgen = <<>> /\ wait_queue = <<>> /\ waiting_procs = 0
SpecChannel ==
    /\ InitChannel /\ [][ChanNext]_vars
    /\ \A p \in ChanProcs : WF_vars(ChanStep(p))

\* Producers sending to one mailbox of some capacity, by mailbox_send and by
\* mailbox_send_ex, while its owner calls try_receive.
InitOverflow ==
    /\ MbInit /\ OvfInit
    /\ ArcParked /\ BarParked /\ MtxParked /\ SchedParked /\ ChanParked
    /\ lexer = <<>> /\ parser = <<>> /\ sema = <<>> /\ irgen = <<>>
    /\ wait_queue = <<>> /\ waiting_procs = 0
SpecOverflow == InitOverflow /\ [][OvfNext]_vars

\* The lexer reading every source of at most MaxSourceLen bytes to its end.
SpecLexer ==
    InitLexer /\ [][LexerNextToken \/ SkipWhitespaceAndComments
                      \/ SkipBlockComment \/ ScanToken]_vars

\* The parser parsing every expression of up to MaxOps binary operators.
SpecParser == InitParser /\ [][ParseExpression]_vars

\* The parser raising errors and synchronizing in any order.
SpecDiagnostics == InitDiagnostics /\ [][ErrorAt \/ Synchronize]_vars

\* Any sequence of type_unify and type_equals calls on the variables, the
\* primitive, the compound types and the error type of the arena.
SpecTypes ==
    InitTypes /\ [][\E a \in {1, 2, 3, 4, 5, 6, 13} : \E b \in {1, 2, 3, 4, 5, 6, 13} :
                       TypeUnify(a, b) \/ TypeEqualsCall(a, b)]_vars

\* Any sequence of type_unify and type_equals calls on the variables and the
\* actor and struct types of the arena.
SpecNominal ==
    InitTypes /\ [][\E a \in {1, 2} \cup 7..12 : \E b \in {1, 2} \cup 7..12 :
                       TypeUnify(a, b) \/ TypeEqualsCall(a, b)]_vars

\* sema_analyze on every program of one or two functions whose body has at
\* most MaxStmts statements.
SpecSema == InitSema /\ [][SemaAnalyze \/ CheckFunction \/ SemaCheckStmt]_vars

\* sema_analyze on every program of a function f and a function main of at
\* most MaxExprStmts calls and sends.
SpecInfer == InitInfer /\ [][SemaInfer]_vars

\* parser_parse_program on every stream of at most MaxTokens tokens that
\* open no declaration; the loop keeps running while it can.
SpecProgram ==
    InitProgram /\ [][ParseDeclaration \/ ParserParseProgram]_vars
                /\ WF_vars(ParseDeclaration) /\ WF_vars(ParserParseProgram)

\* gen_func on every function of the IR generation model.
SpecIrgen == InitIrgen /\ [][GenFuncBody \/ GenFuncEnd]_vars

\* ---- properties of the mailbox ----

\* No mailbox_send is in progress and the queue is empty: the producers have
\* completed n_p = snd_done[p] calls each and the consumer has drained them.
Quiescent == /\ \A p \in Producers : snd_pc[p] = "idle"
             /\ rcv_pc = "idle"
             /\ msg_next[mbox_head] = NULL

\* C1: MPSC delivery.  Every received message was sent, none is received
\* twice, and whenever the producers have completed n_p sends each and the
\* consumer has drained the queue it has received exactly n_p messages of
\* every producer (the sum of n_p in all); no freed node is touched.
C1_MpscDelivery ==
    /\ received[0] = <<>>
    /\ \A p \in Producers :
          /\ \A i \in 1..Len(received[p]) : received[p][i] \in 1..snd_done[p]
          /\ \A i, j \in 1..Len(received[p]) : i # j => received[p][i] # received[p][j]
          /\ Quiescent => Len(received[p]) = snd_done[p]
    /\ ~mbox_fault

\* The producers have completed MaxMsgs sends between them, two or more each,
\* and the consumer has received them all.
C1_Witness ==
    /\ Quiescent
    /\ TotalSent = MaxMsgs
    /\ \A p \in Producers : snd_done[p] >= 2 /\ Len(received[p]) = snd_done[p]

\* C2: per-sender FIFO.  The messages of one sender are received in the order
\* of that sender's mailbox_send calls.
C2_PerSenderFifo ==
    \A p \in Producers :
        \A i, j \in 1..Len(received[p]) : i < j => received[p][i] < received[p][j]

\* Sender 1's two messages have been received although sender 2 enqueued a
\* message between them: the queue held 1's first, 2's first, 1's second.
C2_Witness ==
    /\ Len(received[1]) >= 2
    /\ Len(received[2]) >= 1
    /\ msg_tag[mbox_head] = Tag(1, 2)

\* ---- properties of the overflow policies ----

\* C13: mailbox overflow policies.  On a mailbox with capacity > 0, a send
\* attempted while count >= capacity enqueues nothing at that attempt (under
\* Block the sender yields and retries, under Drop the message is discarded,
\* under Panic the program aborts), so that count never exceeds capacity; and
\* no send to a mailbox with capacity 0 blocks.
C13_OverflowPolicies ==
    /\ [][MailboxFull => mbox_tail' = mbox_tail]_vars
    /\ [][\A p \in Producers : \A policy \in OverflowPolicies :
            SendExOverflow(p, policy) =>
                /\ ovf_blocked'[p] <=> policy = "Block"
                /\ ovf_dropped' > ovf_dropped <=> policy = "Drop"
                /\ ovf_panicked' <=> policy = "Panic"]_vars
    /\ [](mbox_capacity > 0 => mbox_count <= mbox_capacity)
    /\ [](mbox_capacity = 0 => \A p \in Producers : ~ovf_blocked[p])

\* ---- properties of ARC ----

\* Every reference has been released and no release is in progress.
ArcAllReleased ==
    /\ \A w \in ArcWorkers : arc_held[w] = 0 /\ arc_pc[w] = "idle"

\* C8: ARC lifetime.  With retains and releases balanced (and one release for
\* the initial reference), the destructor runs and the block is freed exactly
\* once, at the last release: never twice, never while a reference is still
\* owned, and always once all are released; the header is not touched after
\* the free; and the refcount is 0 only while the releasing worker is
\* destroying the object (or after it has).
C8_ArcFreedOnceAtLastRelease ==
    /\ arc_frees <= 1 /\ arc_dtor_runs = arc_frees
    /\ arc_frees = 1 => \A w \in ArcWorkers : arc_held[w] = 0
    /\ ArcAllReleased => arc_frees = 1
    /\ ~arc_fault
    /\ arc_refcount = 0 =>
          (arc_frees = 1 \/ \E w \in ArcWorkers : arc_pc[w] = "destroy")

\* MaxRetains retains were made, references were handed to every worker, all
\* of them have been released, and the object is freed.
C8_Witness ==
    /\ ArcAllReleased
    /\ arc_retains = MaxRetains
    /\ arc_frees = 1

\* ---- properties of the barrier ----

\* C9: barrier.  A process has returned from its r-th arnm_barrier_wait only
\* if every one of the N processes has called arnm_barrier_wait r times, in
\* the first round and in every reuse of the barrier.
C9_BarrierHoldsUntilAllArrive ==
    \A p \in BarProcs : \A q \in BarProcs : bar_rets[p] <= bar_calls[q]

\* The barrier has been reused: every process has returned from its second
\* arnm_barrier_wait.
C9_Witness ==
    /\ \A p \in BarProcs : bar_rets[p] >= 2
    /\ bar_generation >= 2

\* ---- properties of the mutex ----

\* C10: mutual exclusion.  At most one process holds the mutex: from a
\* successful lock or try_lock by A until A's own unlock releases it, no lock
\* or try_lock of another process succeeds, and the mutex stays locked
\* whatever unlock calls the other processes make.
C10_MutualExclusion ==
    /\ Cardinality(mtx_holders) <= 1
    /\ mtx_holders # {} => mtx_locked

\* Process 1 holds the mutex, an unlock by a non-owner has been refused, and
\* process 2 is spinning in arnm_mutex_lock.
C10_Witness ==
    /\ mtx_holders = {1}
    /\ mtx_owner = 1
    /\ mtx_refused
    /\ mtx_pc[2] = "spin"
    /\ mtx_locked

\* C11: reentrancy by the owner aborts.  Every arnm_mutex_lock call made by a
\* process that holds the mutex ends in abort() (it never reaches the spin
\* loop), and an arnm_mutex_lock call made by a process that does not hold
\* the mutex is never aborted by the deadlock check.
C11_ReentrantLockAborts ==
    [][\A p \in MutexProcs :
          MutexLockEnter(p) =>
              /\ mtx_aborted' <=> p \in mtx_holders
              /\ mtx_pc'[p] = "spin" <=> p \notin mtx_holders]_vars

\* abort() has been called by the process that holds the mutex, while
\* another process, which called arnm_mutex_lock before, is in the spin loop.
C11_Witness ==
    /\ mtx_aborted
    /\ \E p \in MutexProcs : mtx_holders = {p} /\ mtx_owner = p /\ mtx_pc[p] = "idle"
    /\ \E q \in MutexProcs : q \notin mtx_holders /\ mtx_pc[q] = "spin"

\* ---- properties of the channel ----

\* C12: closing a channel unblocks all waiters.  Once the channel is closed,
\* every process that was blocked in arnm_channel_send on a full channel or in
\* arnm_channel_receive on an empty channel when it was closed eventually
\* returns, the send with false and the receive with NULL, and no send or
\* try_send call that begins after the close returns true.
C12_CloseUnblocksWaiters ==
    /\ \A p \in ChanProcs : (ch_at_close[p] # "none") ~> (ch_op[p] = "none")
    /\ [](\A p \in ChanProcs :
            /\ ch_at_close[p] = "send" => ch_result[p] \in {"none", "false"}
            /\ ch_at_close[p] = "receive" => ch_result[p] \in {"none", "null"}
            /\ ch_late[p] => ch_result[p] # "true")

\* C30: a channel receive loses nothing at close.  arnm_channel_receive
\* returns NULL only when the channel is closed and its buffer is empty, so
\* never while an item that was sent before the close is still in the
\* buffer; the items in the buffer are the count slots from head on, in the
\* order they were stored, and count never exceeds the capacity.
C30_ReceiveLosesNothing ==
    /\ [][\A p \in ChanProcs :
            (ch_op[p] = "receive" /\ ch_op'[p] = "none" /\ ch_result'[p] = "null")
                => (chan_closed /\ chan_count = 0)]_vars
    /\ [](/\ chan_count <= ChanCapacity
          /\ chan_tail = (chan_head + chan_count) % ChanCapacity
          /\ \A i \in ChanSlots :
                chan_buffer[i] # NULL <=> ((i - chan_head) % ChanCapacity) < chan_count)

\* ---- properties of the scheduler ----

\* The run queues process p is in, counted with multiplicity.
QueuesHolding(p) ==
    LET L[k \in -1..(num_workers - 1)] ==
            IF k = -1 THEN 0 ELSE L[k - 1] + InQueue(local_queue[k], p)
    IN L[num_workers - 1] + InQueue(global_queue, p)

\* The workers whose `current` is process p.
WorkersRunning(p) == {w \in Workers : wk_current[w] = p}

\* Every process spawned so far has exited.
AllSpawnedDead == \A p \in Procs : proc_state[p] \in {"Unborn", "Dead"}

\* Every worker has left worker_main's loop: sched_run, and so arnm_run, returns.
AllWorkersExited == \A w \in Workers : wk_pc[w] = "exited"

\* C3: blocking receive.  A process suspended in arnm_receive (state WAITING,
\* switched out) to which a message has been sent is eventually resumed and
\* arnm_receive returns the message to it.
C3_BlockedReceiverResumes ==
    \A p \in Procs :
        (proc_state[p] = "Waiting" /\ proc_mbox[p] > 0) ~> (proc_got[p] > 0)

\* C4: exclusive ownership.  A process is never in a run queue while it is
\* some worker's current, never in two queues (or twice in one), and never
\* current on two workers.
C4_ExclusiveOwnership ==
    \A p \in Procs : QueuesHolding(p) + Cardinality(WorkersRunning(p)) <= 1

\* C5: spawn-join.  No entry function starts twice, and when arnm_run returns
\* the entry function of every spawned process has run exactly once (the
\* shared counter equals the number of processes spawned).
C5_EntryExactlyOnce ==
    /\ \A p \in Procs : proc_runs[p] <= 1
    /\ AllWorkersExited =>
          \A p \in Procs : proc_state[p] # "Unborn" => proc_runs[p] = 1

\* C6: arnm_run blocks until all processes complete.  No worker has left its
\* loop while a spawned process is not Dead or active_procs is not 0, and
\* once every spawned process is Dead every worker exits.
C6_RunUntilAllDead ==
    /\ [](\A w \in Workers : wk_pc[w] = "exited" => AllSpawnedDead /\ active_procs = 0)
    /\ (AllSpawnedDead ~> AllWorkersExited)

\* C7: the mailbox outlives every sender.  No arnm_send is made to a target
\* whose record and mailbox proc_destroy has already freed.
C7_SendTargetLive ==
    [][\A w \in 0..(MsgWorkers - 1) : \A target \in Procs :
          ProcSend(w, target) => target \notin proc_freed]_vars

\* C27: work stealing takes only surplus work.  Whenever a thief removes a
\* process from a victim's local queue, that queue holds more than one
\* process at the moment of the removal, and the process is removed once:
\* the queue loses its head and nothing else, and the thief gets that head.
C27_StealOnlySurplus ==
    [][\A w \in 0..(SchedWorkers - 1) :
         (StealPop(w) /\ local_queue' # local_queue) =>
             LET victim == local_queue[Victim(w, wk_i[w])]
             IN  /\ Len(victim) > 1
                 /\ local_queue'[Victim(w, wk_i[w])] = Tail1(victim)
                 /\ wk_proc'[w] = Head(victim)]_vars

\* C25: no live process is dropped.  A process that has switched back to its
\* worker's scheduler context in a state other than Dead is in a run queue
\* or in the wait queue, and every process that has been spawned and is not
\* Dead is some worker's current or in one of these queues.
C25_NoLiveProcessDropped ==
    /\ \A w \in Workers :
          (wk_pc[w] = "back" /\ proc_state[wk_proc[w]] # "Dead") =>
              QueuesHolding(wk_proc[w]) + InQueue(wait_queue, wk_proc[w]) >= 1
    /\ \A p \in Procs :
          proc_state[p] \notin {"Unborn", "Dead"} =>
              \/ WorkersRunning(p) # {}
              \/ QueuesHolding(p) + InQueue(wait_queue, p) >= 1

\* C26: parking accounting.  Every process whose state is Waiting is in the
\* wait queue, and waiting_procs is the number of processes in the wait
\* queue.
C26_ParkingAccounting ==
    /\ \A p \in Procs : proc_state[p] = "Waiting" => InQueue(wait_queue, p) = 1
    /\ waiting_procs = Len(wait_queue)

\* ---- properties of the lexer ----

\* C14: unterminated block comment.  If the input ends while a block comment
\* is still open (its nesting depth has not returned to 0), the token that
\* lexer_next_token returns is an ERROR token, not EOF.
C14_UnterminatedCommentIsError ==
    (lexer.pc = "idle" /\ lexer.open) => lexer.current = "ERROR"

\* ---- properties of the parser ----

\* C15: operator precedence.  The binary operators bind in the order
\* Assignment < Or < And < Equality < Comparison < Send < Term < Factor: in
\* every parsed expression, of two neighbouring operators of different levels
\* the stronger one lies inside the operand of the weaker one on its side
\* (`1 + 2 * 3` is `+` with right operand `2 * 3`; `a ! b + c` is a send
\* whose message is `b + c`), and every operator is in the tree.
C15_OperatorPrecedence ==
    parser.pc = "done" =>
        LET Level(tok) == CASE tok = "EQ" -> 1 [] tok = "PIPE_PIPE" -> 2
                            [] tok = "AND_AND" -> 3 [] tok = "EQ_EQ" -> 4
                            [] tok = "LT" -> 5 [] tok = "BANG" -> 6
                            [] tok = "PLUS" -> 7 [] tok = "STAR" -> 8
            RECURSIVE Ops(_)
            Ops(t) == IF Len(t) = 3 THEN {t[1]} \cup Ops(t[2]) \cup Ops(t[3]) ELSE {}
            RECURSIVE Sub(_, _)
            Sub(t, k) == IF Len(t) # 3 THEN <<>>
                         ELSE IF t[1] = k THEN t
                         ELSE IF k \in Ops(t[2]) THEN Sub(t[2], k) ELSE Sub(t[3], k)
            n == (Len(parser.tokens) - 1) \div 2
        IN /\ Ops(parser.ast) = {2 * i : i \in 1..n}
           /\ \A i \in 1..(n - 1) :
                LET a == 2 * i
                    b == 2 * i + 2
                IN /\ Level(parser.tokens[a]) < Level(parser.tokens[b])
                        => b \in Ops(Sub(parser.ast, a)[3])
                   /\ Level(parser.tokens[a]) > Level(parser.tokens[b])
                        => a \in Ops(Sub(parser.ast, b)[2])
           /\ parser.tokens = <<"IDENT", "PLUS", "IDENT", "STAR", "IDENT">>
                => parser.ast = <<2, <<1>>, <<4, <<3>>, <<5>>>>>>
           /\ parser.tokens = <<"IDENT", "BANG", "IDENT", "PLUS", "IDENT">>
                => parser.ast = <<2, <<1>>, <<4, <<3>>, <<5>>>>>>

\* `a ! b + c * d` has been parsed: a send whose message is `b + (c * d)`.
C15_Witness ==
    /\ parser.pc = "done"
    /\ parser.tokens = <<"IDENT", "BANG", "IDENT", "PLUS", "IDENT", "STAR", "IDENT">>
    /\ parser.ast = <<2, <<1>>, <<4, <<3>>, <<6, <<5>>, <<7>>>>>>>>

\* C16: parser diagnostics.  Between a recorded diagnostic and the next
\* synchronize no further diagnostic is recorded, the number of recorded
\* diagnostics never exceeds 64, and had_error is true exactly when at least
\* one error was raised.
C16_ParserDiagnostics ==
    /\ parser.window <= 1
    /\ parser.error_count <= 64
    /\ parser.had_error <=> parser.raised

\* 64 diagnostics are recorded and a further error has been raised after the
\* last synchronize: it set panic_mode and recorded nothing.
C16_Witness ==
    /\ parser.pc = "parsing"
    /\ parser.error_count = 64
    /\ parser.panic_mode
    /\ parser.window = 0

\* C29: parser termination.  Every iteration of the top-level loop of
\* parser_parse_program consumes at least one token, and the loop ends:
\* parser_parse_program returns on every token stream.
C29_ParserTerminates ==
    /\ [][(parser.pc = "program" /\ parser'.pc = "program")
             => parser'.pos > parser.pos]_vars
    /\ <>(parser.pc = "done")
(***************************************************************************)
(*                      Properties of compiler/types.c                      *)
(***************************************************************************)

\* C17: the occurs check.  (1) type_unify of an unbound variable v with
\* another type that contains v, directly or through bound variables and
\* compound types, fails and leaves v unbound, whichever argument v is.
\* (2) After any sequence of type_unify calls, including the ones that bind
\* a parameter and then fail, no variable is reachable from itself through
\* instances and the components of compound types.  (3) An instance that is
\* set stays as it is.
C17_OccursCheck ==
    /\ [][LET Edges(n) ==
                {TypeArena[n].sub[i] : i \in 1..Len(TypeArena[n].sub)}
                    \cup (IF TypeArena[n].kind = "VAR" /\ sema.instance[n] # NULL
                          THEN {sema.instance[n]} ELSE {})
              RECURSIVE Reach(_)
              Reach(S) ==
                  LET T == S \cup UNION {Edges(n) : n \in S}
                  IN  IF T = S THEN S ELSE Reach(T)
              Fails(v, t) ==
                  (/\ TypeArena[v].kind = "VAR" /\ sema.instance[v] = NULL
                   /\ TypeResolve(sema.instance, t) # v
                   /\ v \in Reach({t}))
                      => ~sema'.result /\ sema'.instance[v] = NULL
          IN  sema'.op = "unify" =>
                  Fails(sema'.a, sema'.b) /\ Fails(sema'.b, sema'.a)]_vars
    /\ [](LET Edges(n) ==
                {TypeArena[n].sub[i] : i \in 1..Len(TypeArena[n].sub)}
                    \cup (IF TypeArena[n].kind = "VAR" /\ sema.instance[n] # NULL
                          THEN {sema.instance[n]} ELSE {})
              RECURSIVE Reach(_)
              Reach(S) ==
                  LET T == S \cup UNION {Edges(n) : n \in S}
                  IN  IF T = S THEN S ELSE Reach(T)
          IN  sema.op # "none" =>
                  \A v \in DOMAIN sema.instance : v \notin Reach(Edges(v)))
    /\ [][sema.op # "none" =>
            \A v \in DOMAIN sema.instance :
                sema.instance[v] # NULL => sema'.instance[v] = sema.instance[v]]_vars

\* type_unify(fn('a, 'b) -> i32, fn(i32, ['b]) -> i32) has bound 'a to i32,
\* then failed on 'b against ['b], and 'b is still unbound.
C17_Witness ==
    /\ sema.op = "unify" /\ sema.a = 4 /\ sema.b = 5
    /\ ~sema.result
    /\ sema.instance[1] = 3
    /\ sema.instance[2] = NULL

\* C18: nominal typing.  type_unify and type_equals of two Actor types, and
\* of two Struct types, succeed exactly when the two names are equal.
C18_NominalTyping ==
    (/\ sema.op \in {"unify", "equals"}
     /\ TypeArena[sema.a].kind \in {"ACTOR", "STRUCT"}
     /\ TypeArena[sema.b].kind = TypeArena[sema.a].kind)
        => (sema.result <=> TypeArena[sema.a].name = TypeArena[sema.b].name)

(***************************************************************************)
(*               Properties of compiler/sema.c and symbol.c                 *)
(***************************************************************************)

\* C19: duplicate definitions.  (1) A `let` of a name that the current scope
\* already has fails: symbol_define returns NULL, the scopes stay as they
\* are, and a duplicate-definition error is recorded; a `let` of a name the
\* current scope does not have is accepted without an error, whatever the
\* outer scopes hold.  (2) An identifier resolves to the definition in the
\* innermost scope that has its name.  (3) When the analysis of a program is
\* done, a duplicate-definition error has been recorded for a top-level
\* declaration exactly if two top-level declarations have one name.
C19_DuplicateDefinitions ==
    /\ [][(sema.pc = "body" /\ sema'.pc = "body" /\ sema'.cursor = sema.cursor + 1
              /\ sema.body[sema.cursor].kind = "let") =>
            LET here == [name |-> sema.body[sema.cursor].name,
                         site |-> <<sema.d, sema.cursor>>]
                current == sema.scopes[Len(sema.scopes)]
            IN  IF \E s \in current : s.name = here.name
                THEN /\ ~sema'.defined
                     /\ sema'.scopes = sema.scopes
                     /\ sema'.had_error
                     /\ sema'.errors = Append(sema.errors,
                            [message |-> "duplicate variable definition", site |-> here.site])
                ELSE /\ sema'.defined
                     /\ sema'.scopes = [sema.scopes EXCEPT ![Len(sema.scopes)] = current \cup {here}]
                     /\ sema'.errors = sema.errors]_vars
    /\ [][(sema.pc = "body" /\ sema'.pc = "body" /\ sema'.cursor = sema.cursor + 1
              /\ sema.body[sema.cursor].kind = "ident") =>
            LET Has(depth) == \E s \in sema.scopes[depth] : s.name = sema.body[sema.cursor].name
                holders == {depth \in 1..Len(sema.scopes) : Has(depth)}
            IN  IF holders = {} THEN sema'.found = <<>>
                ELSE \E s \in sema.scopes[CHOOSE depth \in holders : \A e \in holders : e <= depth] :
                        s.name = sema.body[sema.cursor].name /\ sema'.found = s.site]_vars
    /\ [](sema.pc = "done" =>
            ((\E i, j \in 1..Len(sema.decls) : i < j /\ sema.decls[i] = sema.decls[j])
                <=> (\E k \in 1..Len(sema.errors) : sema.errors[k].site[2] = 0)))

\* C20: break and continue.  A statement is inside a loop when a `while`,
\* `for` or `loop` opened before it has not ended yet, whatever blocks and
\* ifs lie between.  (1) Checking a `break` or `continue` records one error
\* when it is not inside a loop and none when it is.  (2) When the body of a
\* loop ends, in_loop is again what it was when the loop statement was
\* reached.
C20_BreakInsideLoop ==
    [][(sema.pc = "body" /\ sema'.pc = "body" /\ sema'.cursor = sema.cursor + 1) =>
         LET here == sema.cursor
             Opens(k) == sema.body[k].kind \in {"while", "for", "loop", "if", "block"}
             Net(j, k) == Cardinality({n \in j..k : Opens(n)})
                            - Cardinality({n \in j..k : sema.body[n].kind = "end"})
             Encloses(j) == Opens(j) /\ \A k \in j..(here - 1) : Net(j, k) >= 1
             loops == {j \in 1..(here - 1) :
                         Encloses(j) /\ sema.body[j].kind \in {"while", "for", "loop"}}
             opener == CHOOSE j \in 1..(here - 1) :
                         Encloses(j) /\ \A i \in 1..(here - 1) : Encloses(i) => i <= j
         IN  /\ sema.body[here].kind \in {"break", "continue"} =>
                  IF loops = {}
                  THEN /\ sema'.had_error
                       /\ Len(sema'.errors) = Len(sema.errors) + 1
                       /\ sema'.errors[Len(sema'.errors)].site = <<sema.d, here>>
                  ELSE sema'.errors = sema.errors /\ sema'.had_error = sema.had_error
             /\ (sema.body[here].kind = "end"
                   /\ sema.body[opener].kind \in {"while", "for", "loop"}) =>
                  sema'.in_loop = sema.seen[opener]]_vars

\* `while c { if c { break } }` has been checked to the end of the loop: no
\* error, and in_loop is false again.
C20_Witness ==
    /\ sema.pc = "body" /\ sema.cursor = 6 /\ Len(sema.body) = 5
    /\ [i \in 1..5 |-> sema.body[i].kind] = <<"while", "if", "break", "end", "end">>
    /\ sema.errors = <<>> /\ ~sema.had_error
    /\ ~sema.in_loop

\* C21: the send target check.  When sema_analyze is done, every send whose
\* target has a type that is neither Process nor an unresolved type variable
\* (here: an integer, boolean or string literal, or an undefined name) has
\* an error recorded for it, and sema_analyze has returned false.
C21_SendTargetChecked ==
    sema.pc = "done" =>
        \A i \in 1..Len(sema.stmts) :
            (sema.stmts[i].kind = "send" /\ sema.stmts[i].target \notin {"spawn", "param"})
                => /\ \E k \in 1..Len(sema.errors) : sema.errors[k].stmt = i
                   /\ ~sema.result

\* C28: the published function type.  When sema_analyze is done, the symbol
\* `f` has the Fn type of the declaration, with its parameter count, and
\* every call of `f` whose argument count is not the declared parameter
\* count has an error recorded for it, and no other call has.
C28_PublishedFnType ==
    sema.pc = "done" =>
        /\ sema.f_type = [kind |-> "FN", param_count |-> sema.params]
        /\ \A i \in 1..Len(sema.stmts) :
              sema.stmts[i].kind = "call" =>
                  ((sema.stmts[i].argc # sema.params)
                      <=> (\E k \in 1..Len(sema.errors) : sema.errors[k].stmt = i))


\* ---- properties of the IR generator ----

\* C22: the IR block invariant.  In the function gen_func has produced,
\* every basic block ends in a terminator (Ret, Br or Jmp) and holds no
\* other terminator, so no instruction follows one.
C22_BlockInvariant ==
    irgen.pc = "done" =>
        \A b \in 1..Len(irgen.blocks) :
            LET instrs == irgen.blocks[b].instrs
            IN  /\ instrs # <<>>
                /\ \A i \in 1..Len(instrs) :
                      (instrs[i].op \in {"ret", "br", "jmp"}) <=> (i = Len(instrs))

\* C23: lexical scoping of the locals.  Generating an if, a while, a loop
\* or a receive leaves the visible locals as they were, and a use of a name
\* that follows a `let` of it in the same block (the blocks of receive arms
\* aside, which start with the slot of the pattern) loads from the slot of
\* the last such `let`, the innermost binding; a use is a load from a slot
\* an alloca has made.
C23_LexicalScoping ==
    /\ [][(irgen.pc = "body" /\ irgen'.cursor = irgen.cursor + 1
           /\ irgen.func.body[irgen.cursor].kind \in {"if", "while", "loop", "receive"})
             => irgen'.locals = irgen.locals]_vars
    /\ [](\A b \in 1..Len(irgen.blocks) :
            LET instrs == irgen.blocks[b].instrs
            IN  irgen.blocks[b].label[1] # "recv.arm" =>
                  \A j \in 1..Len(instrs) :
                     LET lets == {i \in 1..(j - 1) : instrs[i].op = "alloca"}
                     IN  (instrs[j].op = "load" /\ lets # {}
                          /\ \E c \in 1..Len(irgen.blocks) :
                                \E i \in 1..Len(irgen.blocks[c].instrs) :
                                   /\ irgen.blocks[c].instrs[i].op = "alloca"
                                   /\ irgen.blocks[c].instrs[i].result = instrs[j].op1.v) =>
                            instrs[j].op1.v =
                               instrs[CHOOSE i \in lets : \A k \in lets : k <= i].result)

====
